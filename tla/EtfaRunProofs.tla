--------------------------- MODULE EtfaRunProofs ---------------------------
(***************************************************************************)
(* The contexts of the ETFA engine are the runs of the program: the        *)
(* invariant RunsInv of EtfaRuns is kept by every action, for every        *)
(* program, cycle bound and time-out, as long as the engine is Faithful.   *)
(* First come the runs, what names, terms, merges and summaries mean, and  *)
(* where contexts can be; then one lemma for every action.                 *)
(***************************************************************************)
EXTENDS EtfaRuns, EtfaStoreProofs, WellFoundedInduction

-----------------------------------------------------------------------------
(* The runs of the program, with their recursive definition made explicit. *)

(* A set of numbers that is not empty has a least one.                     *)
LEMMA LeastNumber ==
  ASSUME NEW T \in SUBSET Nat, T # {}
  PROVE  \E x \in T : \A y \in T : ~(y < x)
<1> DEFINE R == OpToRel(<, Nat)
<1>1. IsWellFoundedOn(R, Nat)
  BY NatLessThanWellFounded
<1>2. \A x, y \in Nat : y < x => <<y, x>> \in R
  BY DEF OpToRel
<1> HIDE DEF R
<1>3. \E x \in T : \A y \in T : ~(<<y, x>> \in R)
  BY <1>1, WFMin
<1> QED BY <1>2, <1>3

(* Tabulation is for TLC only.                                             *)
LEMMA TabulatedIsItself ==
  ASSUME NEW f
  PROVE  Tabulated(f) = f
BY DEF Tabulated

(* A run that has reached the cycle bound stays where it is.               *)
NextInRun(p, w, k) == IF k.cycle = CycleBound THEN k ELSE ConcreteStep(p, w, k)

(* The body of RunAfter's recursion, up to step n.                         *)
RunFrom(p, w, n, at) ==
  [i \in 0 .. n |-> IF i = 0 THEN InitialConfiguration(p, w)
                             ELSE NextInRun(p, w, at[i - 1])]

(* The run of a world starts as the simulator does and goes on step by     *)
(* step.                                                                   *)
LEMMA RunAfterUnfolded ==
  ASSUME NEW p, NEW w
  PROVE  RunAfter(p, w) = CHOOSE at : at = RunFrom(p, w, MaxSteps, at)
BY Zenon DEF RunAfter, RunFrom, NextInRun

(* There are runs of any number of steps.                                  *)
LEMMA RunExists ==
  ASSUME NEW p, NEW w, NEW n \in Nat
  PROVE  \E at : at = RunFrom(p, w, n, at)
<1> DEFINE None == {m \in Nat : ~ \E at : at = RunFrom(p, w, m, at)}
           start == InitialConfiguration(p, w)
<1> SUFFICES ASSUME None # {} PROVE FALSE
  OBVIOUS
<1> HIDE DEF start
<1>1. PICK m \in None : \A k \in None : ~(k < m)
  <2>1. None \in SUBSET Nat
    OBVIOUS
  <2> HIDE DEF None
  <2> QED BY <2>1, LeastNumber
<1>2. m # 0
  <2> DEFINE at0 == [i \in 0 .. 0 |-> start]
  <2>1. RunFrom(p, w, 0, at0) = at0
    BY DEF RunFrom, start
  <2> QED BY <2>1
<1>3. m - 1 \in Nat /\ m - 1 < m /\ m \in Nat
  BY <1>2
<1>4. PICK at : at = RunFrom(p, w, m - 1, at)
  BY <1>1, <1>3
<1> DEFINE longer == [i \in 0 .. m |-> IF i = 0 THEN start ELSE NextInRun(p, w, at[i - 1])]
<1>5. \A i \in 0 .. m - 1 : longer[i] = at[i]
  <2>1. \A i \in 0 .. m - 1 : at[i] = IF i = 0 THEN start ELSE NextInRun(p, w, at[i - 1])
    BY <1>4 DEF RunFrom, start
  <2>2. \A i \in 0 .. m - 1 : i \in 0 .. m
    BY <1>3
  <2> QED BY <2>1, <2>2
<1>6. \A i \in 0 .. m : i = 0 \/ i - 1 \in 0 .. m - 1
  BY <1>3
<1>7. longer = RunFrom(p, w, m, longer)
  <2>1. longer = [i \in 0 .. m |-> longer[i]]
    OBVIOUS
  <2>2. \A i \in 0 .. m : longer[i] = IF i = 0 THEN start ELSE NextInRun(p, w, longer[i - 1])
    BY <1>5, <1>6
  <2>3. RunFrom(p, w, m, longer) =
          [i \in 0 .. m |-> IF i = 0 THEN start ELSE NextInRun(p, w, longer[i - 1])]
    BY DEF RunFrom, start
  <2> HIDE DEF longer
  <2> QED BY <2>1, <2>2, <2>3
<1> HIDE DEF longer
<1> QED BY <1>1, <1>7

(* The run starts with the program and takes one step after the other.     *)
LEMMA RunSteps ==
  ASSUME NEW p, NEW w, NEW at, at = RunAfter(p, w)
  PROVE  /\ at[0] = InitialConfiguration(p, w)
         /\ \A i \in 0 .. MaxSteps : i # 0 => at[i] = NextInRun(p, w, at[i - 1])
<1>1. at = RunFrom(p, w, MaxSteps, at)
  BY RunAfterUnfolded, RunExists, MaxStepsAssumption
<1>2. 0 \in 0 .. MaxSteps
  BY MaxStepsAssumption
<1> QED BY <1>1, <1>2 DEF RunFrom

(* The trace of a run has its configurations, each at its position.        *)
LEMMA TraceOfRun ==
  ASSUME NEW q \in Programs, NEW w \in Worlds(Code[q])
  PROVE  /\ DOMAIN Trace[q][w] = {Position(k) : k \in Run(Code[q], w)}
         /\ \A k \in Run(Code[q], w) : Trace[q][w][Position(k)] = k
<1>1. Trace = [r \in Programs |-> RunsOf(Code[r])]
  BY TabulatedIsItself DEF Trace
<1>2. RunsOf(Code[q]) = [u \in Worlds(Code[q]) |-> Visits(Code[q], u)]
  BY TabulatedIsItself DEF RunsOf
<1>3. Visits(Code[q], w) = [pos \in {Position(k) : k \in Run(Code[q], w)} |->
                              CHOOSE k \in Run(Code[q], w) : Position(k) = pos]
  BY TabulatedIsItself DEF Visits
<1>4. Trace[q][w] = [pos \in {Position(k) : k \in Run(Code[q], w)} |->
                       CHOOSE k \in Run(Code[q], w) : Position(k) = pos]
  BY <1>1, <1>2, <1>3
<1>5. \A k \in Run(Code[q], w) : Trace[q][w][Position(k)] = k
  BY RunsAssumption
<1> QED BY <1>4, <1>5

(* A run is at its start.                                                  *)
LEMMA TraceStart ==
  ASSUME NEW q \in Programs, NEW w \in Worlds(Code[q]),
         NEW k, k = InitialConfiguration(Code[q], w)
  PROVE  Position(k) \in DOMAIN Trace[q][w] /\ Trace[q][w][Position(k)] = k
<1>1. 0 \in 0 .. MaxSteps
  BY MaxStepsAssumption
<1>2. k \in Run(Code[q], w)
  BY <1>1, RunSteps DEF Run
<1> QED BY <1>2, TraceOfRun

(* A run goes on until it has reached the cycle bound.                     *)
LEMMA TraceStep ==
  ASSUME NEW q \in Programs, NEW w \in Worlds(Code[q]),
         NEW pos \in DOMAIN Trace[q][w], Trace[q][w][pos].cycle # CycleBound,
         NEW k, k = ConcreteStep(Code[q], w, Trace[q][w][pos])
  PROVE  Position(k) \in DOMAIN Trace[q][w] /\ Trace[q][w][Position(k)] = k
<1> DEFINE at == RunAfter(Code[q], w)
           before == Trace[q][w][pos]
<1>1. before \in Run(Code[q], w)
  <2>1. PICK d \in Run(Code[q], w) : pos = Position(d)
    BY TraceOfRun
  <2> QED BY <2>1, TraceOfRun
<1> HIDE DEF before
<1>2. PICK i \in 0 .. MaxSteps : before = at[i]
  BY <1>1 DEF Run
<1>3. at[MaxSteps].cycle = CycleBound
  BY RunsAssumption
<1>4. i # MaxSteps
  BY <1>2, <1>3 DEF before
<1> HIDE DEF at
<1>5. i + 1 \in 0 .. MaxSteps /\ i + 1 # 0 /\ (i + 1) - 1 = i
  BY <1>4, MaxStepsAssumption
<1>6. at[i + 1] = NextInRun(Code[q], w, at[(i + 1) - 1])
  BY <1>5, RunSteps DEF at
<1>7. at[i + 1] = k
  BY <1>2, <1>5, <1>6 DEF NextInRun, before
<1>8. k \in Run(Code[q], w)
  BY <1>5, <1>7 DEF Run, at
<1> QED BY <1>8, TraceOfRun

-----------------------------------------------------------------------------
(* What terms mean.                                                        *)

(* The meaning of an expression at one point depends on its arguments there*)
LEMMA MeaningAt ==
  ASSUME NEW all, NEW allB, NEW w \in all, NEW v \in allB,
         NEW e, IsExpression(e), NEW f, NEW g,
         \A i \in DOMAIN e.args : w \in f[i] <=> v \in g[i]
  PROVE  w \in Meaning(all, e.op, f) <=> v \in Meaning(allB, e.op, g)
<1>1. CASE e.op = "true"
  BY <1>1 DEF Meaning
<1>2. CASE e.op = "false"
  BY <1>2 DEF Meaning
<1>3. CASE e.op = "id"
  <2>1. w \in f[1] <=> v \in g[1]
    BY <1>3 DEF IsExpression
  <2> QED BY <1>3, <2>1 DEF Meaning
<1>4. CASE e.op = "not"
  <2>1. w \in f[1] <=> v \in g[1]
    BY <1>4 DEF IsExpression
  <2> QED BY <1>4, <2>1 DEF Meaning
<1>5. CASE e.op = "and"
  <2>1. (w \in f[1] <=> v \in g[1]) /\ (w \in f[2] <=> v \in g[2])
    BY <1>5 DEF IsExpression
  <2> QED BY <1>5, <2>1 DEF Meaning
<1>6. CASE e.op = "or"
  <2>1. (w \in f[1] <=> v \in g[1]) /\ (w \in f[2] <=> v \in g[2])
    BY <1>6 DEF IsExpression
  <2> QED BY <1>6, <2>1 DEF Meaning
<1> QED BY <1>1, <1>2, <1>3, <1>4, <1>5, <1>6 DEF IsExpression, Operators

(* An expression over the variables of a graph has the value in a run that *)
(* its encoding has in the store of a context.                             *)
LEMMA EvaluationAt ==
  ASSUME NEW p, NEW w \in Worlds(p), NEW c, NEW k, k.stack = c.stack,
         NEW F, k.env \in [F -> BOOLEAN],
         \A x \in F : k.env[x] <=> w \in CurrentValue(c, x).worlds,
         NEW e, IsExpression(e),
         \A ref \in ArgumentsOf(e) : Flatten(Scope(c), ref) \in F
  PROVE  /\ Evaluate(k, e) \in BOOLEAN
         /\ Evaluate(k, e) <=> w \in WorldsOf(p, c.val, Encode(c, e))
<1> DEFINE args == [i \in DOMAIN e.args |->
                      c.val[CurrentName(c, Flatten(Scope(c), e.args[i]))].worlds]
           x(i) == Flatten(Scope(c), e.args[i])
<1>1. WorldsOf(p, c.val, Encode(c, e)) = Meaning(Worlds(p), e.op, args)
  <2>1. Encode(c, e).op = e.op /\ DOMAIN Encode(c, e).args = DOMAIN e.args
        /\ \A i \in DOMAIN e.args :
             Encode(c, e).args[i] = CurrentName(c, Flatten(Scope(c), e.args[i]))
    BY DEF Encode
  <2>2. [i \in DOMAIN Encode(c, e).args |-> c.val[Encode(c, e).args[i]].worlds] = args
    BY <2>1
  <2> QED BY <2>1, <2>2, Zenon DEF WorldsOf
<1>2. Scope(k) = Scope(c)
  BY DEF Scope
<1>3. \A i \in DOMAIN e.args : /\ k.env[x(i)] \in BOOLEAN
                               /\ k.env[x(i)] <=> w \in args[i]
  <2>1. \A i \in DOMAIN e.args : x(i) \in F
    BY DEF ArgumentsOf
  <2>2. \A i \in DOMAIN e.args : args[i] = CurrentValue(c, x(i)).worlds
    BY DEF CurrentValue
  <2> HIDE DEF args, x
  <2> QED BY <2>1, <2>2
<1> HIDE DEF args
<1>4. CASE e.op = "true"
  BY <1>1, <1>4 DEF Meaning, Evaluate
<1>5. CASE e.op = "false"
  BY <1>1, <1>5 DEF Meaning, Evaluate
<1>6. CASE e.op = "id"
  <2>1. 1 \in DOMAIN e.args
    BY <1>6 DEF IsExpression
  <2>2. Evaluate(k, e) = k.env[x(1)]
    BY <1>2, <1>6 DEF Evaluate
  <2> HIDE DEF x
  <2> QED BY <1>1, <1>3, <1>6, <2>1, <2>2 DEF Meaning
<1>7. CASE e.op = "not"
  <2>1. 1 \in DOMAIN e.args
    BY <1>7 DEF IsExpression
  <2>2. Evaluate(k, e) = ~k.env[x(1)]
    BY <1>2, <1>7 DEF Evaluate
  <2> HIDE DEF x
  <2> QED BY <1>1, <1>3, <1>7, <2>1, <2>2 DEF Meaning
<1>8. CASE e.op = "and"
  <2>1. 1 \in DOMAIN e.args /\ 2 \in DOMAIN e.args
    BY <1>8 DEF IsExpression
  <2>2. Evaluate(k, e) = (k.env[x(1)] /\ k.env[x(2)])
    BY <1>2, <1>8 DEF Evaluate
  <2> HIDE DEF x
  <2> QED BY <1>1, <1>3, <1>8, <2>1, <2>2 DEF Meaning
<1>9. CASE e.op = "or"
  <2>1. 1 \in DOMAIN e.args /\ 2 \in DOMAIN e.args
    BY <1>9 DEF IsExpression
  <2>2. Evaluate(k, e) = (k.env[x(1)] \/ k.env[x(2)])
    BY <1>2, <1>9 DEF Evaluate
  <2> HIDE DEF x
  <2> QED BY <1>1, <1>3, <1>9, <2>1, <2>2 DEF Meaning
<1> QED BY <1>4, <1>5, <1>6, <1>7, <1>8, <1>9 DEF IsExpression, Operators

-----------------------------------------------------------------------------
(* What stores mean.                                                       *)

(* The values of names depend on the names of their terms only.            *)
LEMMA WorldsKept ==
  ASSUME NEW p, NEW val, NEW later, NEW t,
         \A n \in ArgumentsOf(t) : later[n].worlds = val[n].worlds
  PROVE  WorldsOf(p, later, t) = WorldsOf(p, val, t)
<1>1. [i \in DOMAIN t.args |-> later[t.args[i]].worlds] = [i \in DOMAIN t.args |-> val[t.args[i]].worlds]
  BY DEF ArgumentsOf
<1> QED BY <1>1, Zenon DEF WorldsOf

(* The worlds in which a path constraint is satisfied, one by one.         *)
LEMMA SatisfyingAt ==
  ASSUME NEW p, NEW val, NEW pc, NEW w
  PROVE  w \in Satisfying(p, val, pc) <=>
           w \in Worlds(p) /\ \E cube \in pc : \A lit \in cube : w \in Literal(p, val, lit)
<1> DEFINE Lits(cube) == {Literal(p, val, lit) : lit \in cube}
           ModelsOf(cube) == {v \in Worlds(p) : \A holds \in Lits(cube) : v \in holds}
<1>1. Satisfying(p, val, pc) = UNION {ModelsOf(cube) : cube \in pc}
  BY Zenon DEF Satisfying
<1>2. \A cube : w \in ModelsOf(cube) <=>
        w \in Worlds(p) /\ \A lit \in cube : w \in Literal(p, val, lit)
  OBVIOUS
<1> HIDE DEF ModelsOf
<1> QED BY <1>1, <1>2

(* A path constraint says the same wherever its names do.                  *)
LEMMA SatisfyingKept ==
  ASSUME NEW p, NEW val, NEW later, NEW pc,
         \A n \in ConstraintNames(pc) : later[n].worlds = val[n].worlds
  PROVE  Satisfying(p, later, pc) = Satisfying(p, val, pc)
<1>1. ASSUME NEW cube \in pc, NEW lit \in cube
      PROVE  Literal(p, later, lit) = Literal(p, val, lit)
  <2>1. ArgumentsOf(lit[1]) \subseteq ConstraintNames(pc)
    BY DEF ConstraintNames
  <2>2. WorldsOf(p, later, lit[1]) = WorldsOf(p, val, lit[1])
    BY <2>1, WorldsKept
  <2> QED BY <2>2 DEF Literal
<1>2. \A w : w \in Satisfying(p, later, pc) <=> w \in Satisfying(p, val, pc)
  BY <1>1, SatisfyingAt
<1> QED BY <1>2

(* So does a term.                                                         *)
LEMMA ValueKept ==
  ASSUME NEW p, NEW val, NEW later, NEW t,
         \A n \in ArgumentsOf(t) : later[n].worlds = val[n].worlds,
         t.op = "ite" => /\ t.args = <<t.args[1], t.args[2]>>
                         /\ \A n \in ConstraintNames(t.guard) : later[n].worlds = val[n].worlds
  PROVE  ValueOf(p, later, t) = ValueOf(p, val, t)
<1>1. CASE t.op = "ite"
  <2>1. t.args[1] \in ArgumentsOf(t) /\ t.args[2] \in ArgumentsOf(t)
    <3>1. 1 \in DOMAIN t.args /\ 2 \in DOMAIN t.args
      BY <1>1
    <3> QED BY <3>1 DEF ArgumentsOf
  <2>2. Satisfying(p, later, t.guard) = Satisfying(p, val, t.guard)
    BY <1>1, SatisfyingKept
  <2> QED BY <1>1, <2>1, <2>2 DEF ValueOf
<1>2. CASE t.op # "ite"
  BY <1>2, WorldsKept DEF ValueOf
<1> QED BY <1>1, <1>2

(* A name of a store that means what it says, with closed terms, means the *)
(* same in every store that has grown out of it.                           *)
LEMMA MeaningKept ==
  ASSUME NEW p, NEW c, StoreMeans(p, c), StoreIsClosed(p, c), NEW later,
         \A n \in DOMAIN c.val : later[n] = c.val[n], NEW n \in DOMAIN c.val
  PROVE  /\ later[n].worlds = ValueOf(p, later, c.val[n].term)
         /\ c.val[n].term.op = "ite" =>
              /\ c.val[n].term.args = <<c.val[n].term.args[1], c.val[n].term.args[2]>>
              /\ ConstraintNames(c.val[n].term.guard) \subseteq DOMAIN c.val
<1> DEFINE t == c.val[n].term
<1>1. t \in Terms(c)
  BY DEF Terms
<1>2. ArgumentsOf(t) \subseteq DOMAIN c.val
  BY <1>1 DEF StoreIsClosed
<1>3. /\ c.val[n].worlds = ValueOf(p, c.val, t)
      /\ t.op = "ite" => /\ t.args = <<t.args[1], t.args[2]>>
                         /\ ConstraintNames(t.guard) \subseteq DOMAIN c.val
  BY DEF StoreMeans
<1> HIDE DEF t
<1>4. ValueOf(p, later, t) = ValueOf(p, c.val, t)
  BY <1>2, <1>3, ValueKept
<1> QED BY <1>3, <1>4 DEF t

(* A store keeps to its meaning when it grows by names that do.            *)
LEMMA StoreGrows ==
  ASSUME NEW p, NEW c, StoreMeans(p, c), StoreIsClosed(p, c), NEW d,
         \A n \in DOMAIN c.val : n \in DOMAIN d.val /\ d.val[n] = c.val[n],
         \A n \in DOMAIN d.val \ DOMAIN c.val :
           /\ d.val[n].worlds = ValueOf(p, d.val, d.val[n].term)
           /\ d.val[n].term.op = "ite" =>
                /\ d.val[n].term.args = <<d.val[n].term.args[1], d.val[n].term.args[2]>>
                /\ ConstraintNames(d.val[n].term.guard) \subseteq DOMAIN d.val
  PROVE  StoreMeans(p, d)
<1>1. ASSUME NEW n \in DOMAIN d.val
      PROVE  /\ d.val[n].worlds = ValueOf(p, d.val, d.val[n].term)
             /\ d.val[n].term.op = "ite" =>
                  /\ d.val[n].term.args = <<d.val[n].term.args[1], d.val[n].term.args[2]>>
                  /\ ConstraintNames(d.val[n].term.guard) \subseteq DOMAIN d.val
  <2>1. CASE n \in DOMAIN c.val
    <3>1. /\ d.val[n].worlds = ValueOf(p, d.val, c.val[n].term)
          /\ c.val[n].term.op = "ite" =>
               /\ c.val[n].term.args = <<c.val[n].term.args[1], c.val[n].term.args[2]>>
               /\ ConstraintNames(c.val[n].term.guard) \subseteq DOMAIN c.val
      BY <2>1, MeaningKept
    <3> QED BY <2>1, <3>1
  <2>2. CASE n \notin DOMAIN c.val
    BY <2>2
  <2> QED BY <2>1, <2>2
<1> QED BY <1>1, Zenon DEF StoreMeans

(* The names of the path constraint are names of the store.                *)
LEMMA ConstraintIsClosed ==
  ASSUME NEW p, NEW c, StoreIsClosed(p, c)
  PROVE  ConstraintNames(c.pc) \subseteq DOMAIN c.val
<1>1. \A lit \in UNION c.pc : lit[1] \in Terms(c)
  BY DEF Terms
<1> QED BY <1>1 DEF ConstraintNames, StoreIsClosed

(* A path constraint means the same in a store that has grown.             *)
LEMMA PathWorldsKept ==
  ASSUME NEW p, NEW c, StoreIsClosed(p, c), NEW later,
         \A n \in DOMAIN c.val : later[n] = c.val[n]
  PROVE  Satisfying(p, later, c.pc) = PathWorlds(p, c)
BY ConstraintIsClosed, SatisfyingKept DEF PathWorlds

(* Assuming a literal.                                                     *)
LiteralMeans(p, val, pc, t, sign) ==
  /\ sign => Satisfying(p, val, PushPathConstraint(pc, <<t, sign>>)) =
               Satisfying(p, val, pc) \cap WorldsOf(p, val, t)
  /\ ~sign => Satisfying(p, val, PushPathConstraint(pc, <<t, sign>>)) =
                Satisfying(p, val, pc) \ WorldsOf(p, val, t)

(* Assuming a literal keeps the worlds in which it is what it should be.   *)
LEMMA LiteralPushed ==
  ASSUME NEW p, NEW val, NEW pc, NEW t, NEW sign \in BOOLEAN
  PROVE  LiteralMeans(p, val, pc, t, sign)
<1> DEFINE lit == <<t, sign>>
<1>1. ASSUME NEW w \in Worlds(p)
      PROVE  w \in Satisfying(p, val, PushPathConstraint(pc, lit)) <=>
               w \in Satisfying(p, val, pc) /\ w \in Literal(p, val, lit)
  <2> HIDE DEF lit
  <2>1. PushPathConstraint(pc, lit) = {cube \cup {lit} : cube \in pc}
    BY DEF PushPathConstraint
  <2>2. \A u \in PushPathConstraint(pc, lit) : \E cube \in pc : u = cube \cup {lit}
    BY <2>1
  <2>3. \A cube \in pc : cube \cup {lit} \in PushPathConstraint(pc, lit)
    BY <2>1
  <2>4. \A cube : (\A l \in cube \cup {lit} : w \in Literal(p, val, l)) <=>
                    (\A l \in cube : w \in Literal(p, val, l)) /\ w \in Literal(p, val, lit)
    OBVIOUS
  <2> DEFINE Push == PushPathConstraint(pc, lit)
  <2>5. w \in Satisfying(p, val, Push) <=> \E cube \in Push : \A l \in cube : w \in Literal(p, val, l)
    BY SatisfyingAt
  <2>6. w \in Satisfying(p, val, pc) <=> \E cube \in pc : \A l \in cube : w \in Literal(p, val, l)
    BY SatisfyingAt
  <2>7. ASSUME w \in Satisfying(p, val, Push)
        PROVE  w \in Satisfying(p, val, pc) /\ w \in Literal(p, val, lit)
    <3> HIDE DEF Push
    <3>1. PICK u \in Push : \A l \in u : w \in Literal(p, val, l)
      BY <2>5, <2>7
    <3>2. PICK cube \in pc : u = cube \cup {lit}
      BY <2>2 DEF Push
    <3> QED BY <2>4, <2>6, <3>1, <3>2
  <2>8. ASSUME w \in Satisfying(p, val, pc) /\ w \in Literal(p, val, lit)
        PROVE  w \in Satisfying(p, val, Push)
    <3> HIDE DEF Push
    <3>1. PICK cube \in pc : \A l \in cube : w \in Literal(p, val, l)
      BY <2>6, <2>8
    <3>2. cube \cup {lit} \in Push
      BY <2>3 DEF Push
    <3> QED BY <2>4, <2>5, <2>8, <3>1, <3>2
  <2> QED BY <2>7, <2>8
<1>2. \A w : w \in Satisfying(p, val, pc) => w \in Worlds(p)
  BY SatisfyingAt
<1>3. \A w : w \in Satisfying(p, val, PushPathConstraint(pc, lit)) => w \in Worlds(p)
  BY SatisfyingAt
<1>4. \A w \in Worlds(p) : w \in Literal(p, val, lit) <=>
        IF sign THEN w \in WorldsOf(p, val, t) ELSE w \notin WorldsOf(p, val, t)
  BY DEF Literal
<1> HIDE DEF lit
<1>5. /\ sign => Satisfying(p, val, PushPathConstraint(pc, lit)) =
                   Satisfying(p, val, pc) \cap WorldsOf(p, val, t)
      /\ ~sign => Satisfying(p, val, PushPathConstraint(pc, lit)) =
                    Satisfying(p, val, pc) \ WorldsOf(p, val, t)
  BY <1>1, <1>2, <1>3, <1>4
<1> QED BY <1>5 DEF lit, LiteralMeans

-----------------------------------------------------------------------------
(* What the operations on contexts do to the meaning of their stores.      *)

(* A context that only differs in where it is.                             *)
LEMMA SameMeaning ==
  ASSUME NEW p, NEW c, NEW d, d.val = c.val
  PROVE  /\ StoreMeans(p, c) => StoreMeans(p, d)
         /\ d.pc = c.pc => PathWorlds(p, d) = PathWorlds(p, c)
         /\ d.ver = c.ver /\ d.cycle = c.cycle =>
              \A x : CurrentValue(d, x) = CurrentValue(c, x)
BY DEF StoreMeans, PathWorlds, CurrentValue, CurrentName

(* An assignment gives the variable the worlds of the expression.          *)
LEMMA AssignMeans ==
  ASSUME NEW p, NEW c, ContextOK(p, c), c.cycle \in Nat,
         NEW versions \in [FlattenedInterface(p) -> Nat], StoreOK(p, versions, c),
         StoreMeans(p, c),
         NEW x \in FlattenedInterface(p), NEW e, IsExpression(e),
         \A ref \in ArgumentsOf(e) : Flatten(Scope(c), ref) \in FlattenedInterface(p),
         NEW l, NEW d, d = Assign(p, versions, c, x, e, l)
  PROVE  /\ StoreMeans(p, d)
         /\ PathWorlds(p, d) = PathWorlds(p, c)
         /\ \A y \in FlattenedInterface(p) :
              CurrentValue(d, y).worlds = IF y = x THEN WorldsOf(p, c.val, Encode(c, e))
                                                   ELSE CurrentValue(c, y).worlds
<1> DEFINE F == FlattenedInterface(p)
           name == <<x, versions[x] + 1, c.cycle>>
           new == [n \in {name} |-> Symbolic(p, c.val, Encode(c, e))]
           k == versions[x] + 1
<1>1. Record(c) /\ c.ver \in [F -> Nat]
  BY DEF ContextOK, Record
<1>2. /\ d.val = Emplace(c.val, {name}, new) /\ d.pc = c.pc /\ d.cycle = c.cycle
      /\ d.ver = [c.ver EXCEPT ![x] = versions[x] + 1]
  BY <1>1 DEF Record, Assign
<1>3. DOMAIN d.val = DOMAIN c.val \cup {name} /\ \A n \in DOMAIN c.val : d.val[n] = c.val[n]
  BY AssignStore
<1>a. k \in Nat /\ k > versions[x]
  OBVIOUS
<1>4. name \notin DOMAIN c.val
  <2> HIDE DEF k
  <2>1. <<x, k, c.cycle>> \notin DOMAIN c.val
    BY <1>a, NextNameIsNew
  <2> QED BY <2>1 DEF k
<1>5. new[name] = Symbolic(p, c.val, Encode(c, e))
  OBVIOUS
<1>6. \A y \in F : CurrentName(d, y) = IF y = x THEN name ELSE CurrentName(c, y)
  BY <1>1, <1>2 DEF CurrentName
<1> HIDE DEF name, new
<1>7. d.val[name] = Symbolic(p, c.val, Encode(c, e))
  BY <1>2, <1>4, <1>5 DEF Emplace
<1>8. StoreIsClosed(p, c)
  BY DEF StoreOK
<1>9. WorldsOf(p, d.val, Encode(c, e)) = WorldsOf(p, c.val, Encode(c, e))
  <2>1. ArgumentsOf(Encode(c, e)) \subseteq DOMAIN c.val
    BY <1>8, EncodedTerm DEF StoreIsClosed
  <2> QED BY <1>3, <2>1, WorldsKept
<1>10. /\ d.val[name].term = Encode(c, e) /\ Encode(c, e).op # "ite"
       /\ d.val[name].worlds = WorldsOf(p, c.val, Encode(c, e))
  BY <1>7 DEF Symbolic, Encode, IsExpression
<1>11. d.val[name].worlds = ValueOf(p, d.val, d.val[name].term)
  BY <1>9, <1>10 DEF ValueOf
<1>12. StoreMeans(p, d)
  BY <1>3, <1>8, <1>10, <1>11, StoreGrows
<1>13. PathWorlds(p, d) = PathWorlds(p, c)
  BY <1>2, <1>3, <1>8, PathWorldsKept DEF PathWorlds
<1>14. \A y \in F : CurrentName(c, y) \in DOMAIN c.val
  BY <1>8 DEF StoreIsClosed
<1>15. \A y \in F : CurrentValue(d, y).worlds = IF y = x THEN WorldsOf(p, c.val, Encode(c, e))
                                                         ELSE CurrentValue(c, y).worlds
  BY <1>3, <1>6, <1>10, <1>14 DEF CurrentValue
<1> QED BY <1>12, <1>13, <1>15

(* An input constant stands for itself.                                    *)
LEMMA InputMeans ==
  ASSUME NEW p, NEW x, NEW k, NEW val, val[<<x, 0, k>>] = InputConstant(p, x, k)
  PROVE  /\ val[<<x, 0, k>>].term.op # "ite"
         /\ val[<<x, 0, k>>].worlds = ValueOf(p, val, val[<<x, 0, k>>].term)
<1> DEFINE n == <<x, 0, k>>
           t == [op |-> "id", args |-> <<n>>]
<1>1. val[n].term = t /\ val[n].worlds = {w \in Worlds(p) : <<k, x>> \in w}
  BY DEF InputConstant
<1>2. t.op = "id" /\ DOMAIN t.args = {1} /\ t.args[1] = n
  OBVIOUS
<1> HIDE DEF n
<1>3. WorldsOf(p, val, t) = Meaning(Worlds(p), t.op, [i \in DOMAIN t.args |-> val[t.args[i]].worlds])
  BY Zenon DEF WorldsOf
<1> DEFINE f == [i \in DOMAIN t.args |-> val[t.args[i]].worlds]
<1>4. f[1] = val[n].worlds
  BY <1>2
<1>a. t.op = "id"
  BY <1>2
<1> HIDE DEF t, f
<1>5. Meaning(Worlds(p), t.op, f) = f[1]
  BY <1>a DEF Meaning
<1>6. WorldsOf(p, val, t) = val[n].worlds
  BY <1>3, <1>4, <1>5 DEF f
<1> QED BY <1>1, <1>2, <1>6 DEF ValueOf, n

(* The first context has the initial values in every world.                *)
LEMMA InitialMeans ==
  ASSUME NEW p, \A x \in FlattenedInterface(p) : InitialValue(p, x) \in BOOLEAN,
         NEW c, c = InitialContext(p)
  PROVE  /\ StoreMeans(p, c)
         /\ PathWorlds(p, c) = Worlds(p)
         /\ \A x \in FlattenedInterface(p) : \A w \in Worlds(p) :
              w \in CurrentValue(c, x).worlds <=>
                IF x \in WholeProgramInputs(p) THEN <<0, x>> \in w ELSE InitialValue(p, x)
<1> DEFINE F == FlattenedInterface(p)
           names == {<<x, 0, 0>> : x \in F}
           literal(x) == [op |-> IF InitialValue(p, x) THEN "true" ELSE "false",
                          args |-> <<>>]
           Initial(x) == IF x \in WholeProgramInputs(p)
                         THEN InputConstant(p, x, 0) ELSE Symbolic(p, <<>>, literal(x))
<1>1. /\ c.cycle = 0 /\ c.pc = {{}} /\ c.ver = [x \in F |-> 0]
      /\ c.val = [n \in names |-> Initial(n[1])]
  BY DEF InitialContext
<1>2. ASSUME NEW x \in F, NEW val
      PROVE  /\ WorldsOf(p, val, literal(x)) = IF InitialValue(p, x) THEN Worlds(p) ELSE {}
             /\ Symbolic(p, <<>>, literal(x)).term = literal(x)
             /\ Symbolic(p, <<>>, literal(x)).worlds = WorldsOf(p, <<>>, literal(x))
             /\ literal(x).op # "ite"
  <2>1. literal(x).op = IF InitialValue(p, x) THEN "true" ELSE "false"
    OBVIOUS
  <2> HIDE DEF literal
  <2>2. WorldsOf(p, val, literal(x)) = IF InitialValue(p, x) THEN Worlds(p) ELSE {}
    BY <2>1 DEF WorldsOf, Meaning
  <2> QED BY <2>1, <2>2 DEF Symbolic
<1> HIDE DEF literal
<1>3. DOMAIN c.val = names /\ \A x \in F : <<x, 0, 0>> \in names /\ c.val[<<x, 0, 0>>] = Initial(x)
  BY <1>1
<1>4. ASSUME NEW x \in F
      PROVE  /\ c.val[<<x, 0, 0>>].term.op # "ite"
             /\ c.val[<<x, 0, 0>>].worlds = ValueOf(p, c.val, c.val[<<x, 0, 0>>].term)
  <2>1. CASE x \in WholeProgramInputs(p)
    <3>1. c.val[<<x, 0, 0>>] = InputConstant(p, x, 0)
      BY <1>3, <2>1
    <3> QED BY <3>1, InputMeans
  <2>2. CASE x \notin WholeProgramInputs(p)
    <3>1. c.val[<<x, 0, 0>>] = Symbolic(p, <<>>, literal(x))
      BY <1>3, <2>2
    <3>2. /\ c.val[<<x, 0, 0>>].term = literal(x)
          /\ c.val[<<x, 0, 0>>].worlds = WorldsOf(p, <<>>, literal(x))
      BY <1>2, <3>1
    <3>3. WorldsOf(p, <<>>, literal(x)) = WorldsOf(p, c.val, literal(x))
      <4>1. WorldsOf(p, <<>>, literal(x)) = IF InitialValue(p, x) THEN Worlds(p) ELSE {}
        BY <1>2
      <4>2. WorldsOf(p, c.val, literal(x)) = IF InitialValue(p, x) THEN Worlds(p) ELSE {}
        BY <1>2
      <4> QED BY <4>1, <4>2
    <3> QED BY <1>2, <3>2, <3>3 DEF ValueOf
  <2> QED BY <2>1, <2>2
<1>5. StoreMeans(p, c)
  <2>1. \A n \in DOMAIN c.val : \E x \in F : n = <<x, 0, 0>>
    BY <1>3
  <2> HIDE DEF names, Initial
  <2> QED BY <1>4, <2>1 DEF StoreMeans
<1>6. \A w : w \in PathWorlds(p, c) <=> w \in Worlds(p)
  <2>1. \A w : w \in Satisfying(p, c.val, {{}}) <=> w \in Worlds(p)
    BY SatisfyingAt
  <2> QED BY <1>1, <2>1 DEF PathWorlds
<1>7. ASSUME NEW x \in F, NEW w \in Worlds(p)
      PROVE  w \in CurrentValue(c, x).worlds <=>
               IF x \in WholeProgramInputs(p) THEN <<0, x>> \in w ELSE InitialValue(p, x)
  <2>1. CurrentValue(c, x) = Initial(x)
    BY <1>1, <1>3 DEF CurrentValue, CurrentName
  <2>2. CASE x \in WholeProgramInputs(p)
    <3>1. Initial(x).worlds = {v \in Worlds(p) : <<0, x>> \in v}
      BY <2>2 DEF InputConstant
    <3> QED BY <2>1, <2>2, <3>1
  <2>3. CASE x \notin WholeProgramInputs(p)
    <3>1. Initial(x).worlds = WorldsOf(p, <<>>, literal(x))
      BY <1>2, <2>3
    <3>2. WorldsOf(p, <<>>, literal(x)) = IF InitialValue(p, x) THEN Worlds(p) ELSE {}
      BY <1>2
    <3> QED BY <2>1, <2>3, <3>1, <3>2
  <2> QED BY <2>2, <2>3
<1> QED BY <1>5, <1>6, <1>7

(* The next cycle keeps the values of all variables but the inputs.        *)
LEMMA NextCycleMeans ==
  ASSUME NEW p, NEW c, ContextOK(p, c), c.cycle \in Nat,
         NEW versions, StoreOK(p, versions, c), StoreMeans(p, c),
         NEW d, d = NextCycle(p, c)
  PROVE  /\ StoreMeans(p, d)
         /\ PathWorlds(p, d) = Worlds(p)
         /\ \A x \in FlattenedInterface(p) : \A w \in Worlds(p) :
              w \in CurrentValue(d, x).worlds <=>
                IF x \in WholeProgramInputs(p) THEN <<c.cycle + 1, x>> \in w
                                               ELSE w \in CurrentValue(c, x).worlds
<1> DEFINE F == FlattenedInterface(p)
           k == c.cycle + 1
           names == {<<x, 0, k>> : x \in F}
           Value(x) == IF x \in WholeProgramInputs(p)
                      THEN InputConstant(p, x, k) ELSE CurrentValue(c, x)
           new == [n \in names |-> Value(n[1])]
<1>1. Record(c)
  BY DEF ContextOK, Record
<1>2. /\ d.val = Emplace(c.val, names, new)
      /\ d.cycle = k /\ d.pc = {{}} /\ d.ver = [x \in F |-> 0]
  BY <1>1 DEF Record, NextCycle
<1> HIDE DEF Value
<1>3. \A n \in names : n[1] \in F /\ new[n] = Value(n[1]) /\ n[2] = 0 /\ n[3] = k
  OBVIOUS
<1>4. names \cap DOMAIN c.val = {}
  BY <1>3 DEF StoreOK, NameOK
<1>5. \A x \in F : <<x, 0, k>> \in names /\ new[<<x, 0, k>>] = Value(x)
  OBVIOUS
<1>6. \A n \in names : \E x \in F : n = <<x, 0, k>>
  OBVIOUS
<1> HIDE DEF new, names
<1>7. /\ DOMAIN d.val = DOMAIN c.val \cup names
      /\ \A n \in DOMAIN c.val : d.val[n] = c.val[n]
      /\ \A n \in names : d.val[n] = new[n]
  BY <1>2, <1>4 DEF Emplace
<1>8. \A x \in F : d.val[<<x, 0, k>>] = Value(x)
  BY <1>5, <1>7
<1>9. StoreIsClosed(p, c)
  BY DEF StoreOK
<1>10. ASSUME NEW x \in F
       PROVE  LET n == <<x, 0, k>>
              IN  /\ d.val[n].worlds = ValueOf(p, d.val, d.val[n].term)
                  /\ d.val[n].term.op = "ite" =>
                       /\ d.val[n].term.args = <<d.val[n].term.args[1], d.val[n].term.args[2]>>
                       /\ ConstraintNames(d.val[n].term.guard) \subseteq DOMAIN d.val
  <2> DEFINE n == <<x, 0, k>>
  <2>1. CASE x \in WholeProgramInputs(p)
    <3>1. d.val[n] = InputConstant(p, x, k)
      BY <1>8, <2>1 DEF Value
    <3> HIDE DEF k
    <3> QED BY <3>1, InputMeans
  <2>2. CASE x \notin WholeProgramInputs(p)
    <3>1. d.val[n] = c.val[CurrentName(c, x)]
      BY <1>8, <2>2 DEF Value, CurrentValue
    <3>2. CurrentName(c, x) \in DOMAIN c.val
      BY <1>9 DEF StoreIsClosed
    <3> DEFINE m == CurrentName(c, x)
    <3> HIDE DEF m
    <3>3. /\ c.val[m].worlds = ValueOf(p, d.val, c.val[m].term)
          /\ c.val[m].term.op = "ite" =>
               /\ c.val[m].term.args = <<c.val[m].term.args[1], c.val[m].term.args[2]>>
               /\ ConstraintNames(c.val[m].term.guard) \subseteq DOMAIN c.val
      <4>1. m \in DOMAIN c.val
        BY <3>2 DEF m
      <4>2. d.val[m] = c.val[m]
        BY <1>7, <4>1
      <4>3. /\ d.val[m].worlds = ValueOf(p, d.val, c.val[m].term)
            /\ c.val[m].term.op = "ite" =>
                 /\ c.val[m].term.args = <<c.val[m].term.args[1], c.val[m].term.args[2]>>
                 /\ ConstraintNames(c.val[m].term.guard) \subseteq DOMAIN c.val
        BY <1>7, <1>9, <4>1, MeaningKept
      <4> QED BY <4>2, <4>3
    <3>4. d.val[n] = c.val[m]
      BY <3>1 DEF m
    <3> HIDE DEF n
    <3>5. /\ d.val[n].worlds = ValueOf(p, d.val, d.val[n].term)
          /\ d.val[n].term.op = "ite" =>
               /\ d.val[n].term.args = <<d.val[n].term.args[1], d.val[n].term.args[2]>>
               /\ ConstraintNames(d.val[n].term.guard) \subseteq DOMAIN d.val
      BY <1>7, <3>3, <3>4
    <3> QED BY <3>5 DEF n
  <2> QED BY <2>1, <2>2
<1>11. StoreMeans(p, d)
  <2>1. \A n \in DOMAIN d.val \ DOMAIN c.val : \E x \in F : n = <<x, 0, k>>
    BY <1>6, <1>7
  <2> HIDE DEF k
  <2>2. \A n \in DOMAIN d.val \ DOMAIN c.val :
          /\ d.val[n].worlds = ValueOf(p, d.val, d.val[n].term)
          /\ d.val[n].term.op = "ite" =>
               /\ d.val[n].term.args = <<d.val[n].term.args[1], d.val[n].term.args[2]>>
               /\ ConstraintNames(d.val[n].term.guard) \subseteq DOMAIN d.val
    BY <1>10, <2>1
  <2> QED BY <1>7, <1>9, <2>2, StoreGrows
<1>12. \A w : w \in PathWorlds(p, d) <=> w \in Worlds(p)
  <2>1. \A w : w \in Satisfying(p, d.val, {{}}) <=> w \in Worlds(p)
    BY SatisfyingAt
  <2> QED BY <1>2, <2>1 DEF PathWorlds
<1>13. ASSUME NEW x \in F, NEW w \in Worlds(p)
       PROVE  w \in CurrentValue(d, x).worlds <=>
                IF x \in WholeProgramInputs(p) THEN <<c.cycle + 1, x>> \in w
                                               ELSE w \in CurrentValue(c, x).worlds
  <2>1. CurrentValue(d, x) = Value(x)
    BY <1>2, <1>8 DEF CurrentValue, CurrentName
  <2> QED BY <2>1 DEF Value, InputConstant
<1> QED BY <1>11, <1>12, <1>13

(* Equal terms have equal values in stores that agree.                     *)
LEMMA EqualTerms ==
  ASSUME NEW p, NEW c1, StoreMeans(p, c1), StoreIsClosed(p, c1),
         NEW c2, StoreMeans(p, c2), StoreIsClosed(p, c2),
         \A n \in DOMAIN c1.val \cap DOMAIN c2.val : c1.val[n] = c2.val[n],
         NEW n1 \in DOMAIN c1.val, NEW n2 \in DOMAIN c2.val,
         c1.val[n1].term = c2.val[n2].term
  PROVE  c1.val[n1].worlds = c2.val[n2].worlds
<1> DEFINE t == c1.val[n1].term
<1>1. t \in Terms(c1) /\ t \in Terms(c2)
  BY DEF Terms
<1>2. ArgumentsOf(t) \subseteq DOMAIN c1.val /\ ArgumentsOf(t) \subseteq DOMAIN c2.val
  BY <1>1 DEF StoreIsClosed
<1>3. /\ c1.val[n1].worlds = ValueOf(p, c1.val, t)
      /\ c2.val[n2].worlds = ValueOf(p, c2.val, t)
      /\ t.op = "ite" => /\ t.args = <<t.args[1], t.args[2]>>
                         /\ ConstraintNames(t.guard) \subseteq DOMAIN c1.val
                         /\ ConstraintNames(t.guard) \subseteq DOMAIN c2.val
  BY DEF StoreMeans
<1> HIDE DEF t
<1>4. ValueOf(p, c2.val, t) = ValueOf(p, c1.val, t)
  BY <1>2, <1>3, ValueKept
<1> QED BY <1>3, <1>4

(* The join has the values of the first context where its path constraint  *)
(* holds, and those of the second elsewhere.                               *)
LEMMA MergeMeans ==
  ASSUME NEW p, NEW c1, ContextOK(p, c1), c1.cycle \in Nat,
         NEW c2, ContextOK(p, c2), c2.cycle = c1.cycle,
         NEW versions \in [FlattenedInterface(p) -> Nat],
         StoreOK(p, versions, c1), StoreOK(p, versions, c2),
         StoreMeans(p, c1), StoreMeans(p, c2),
         \A n \in DOMAIN c1.val \cap DOMAIN c2.val : c1.val[n] = c2.val[n],
         NEW d, d = Merge(p, versions, c1, c2)
  PROVE  /\ StoreMeans(p, d)
         /\ \A x \in FlattenedInterface(p) :
              /\ \A w \in PathWorlds(p, c1) :
                   w \in CurrentValue(d, x).worlds <=> w \in CurrentValue(c1, x).worlds
              /\ \A w \in PathWorlds(p, c2) \ PathWorlds(p, c1) :
                   w \in CurrentValue(d, x).worlds <=> w \in CurrentValue(c2, x).worlds
<1> DEFINE F == FlattenedInterface(p)
           diff == VersionsDiffer(c1, c2)
           names == {MergedName(versions, c1, x) : x \in diff}
           both == Emplace(c1.val, DOMAIN c2.val, c2.val)
           new == [n \in names |-> MergedValue(p, c1, c2, n[1])]
<1>1. Record(c1) /\ c1.ver \in [F -> Nat] /\ c2.ver \in [F -> Nat]
  BY DEF ContextOK, Record
<1>2. /\ d.val = Emplace(both, names, new)
      /\ d.cycle = c1.cycle
      /\ d.ver = [x \in F |-> IF x \in diff THEN versions[x] + 1 ELSE c1.ver[x]]
  BY <1>1 DEF Record, Merge
<1>3. diff \subseteq F
  BY <1>1 DEF VersionsDiffer
<1>4. \A x \in F : x \in diff <=> c1.ver[x] # c2.ver[x]
  BY <1>1 DEF VersionsDiffer
<1> HIDE DEF diff
<1>5. ASSUME NEW x \in diff
      PROVE  /\ MergedName(versions, c1, x) \notin DOMAIN c1.val \cup DOMAIN c2.val
             /\ MergedName(versions, c1, x)[1] = x
             /\ MergedName(versions, c1, x) = <<x, versions[x] + 1, c1.cycle>>
  <2> DEFINE k == versions[x] + 1
  <2>1. x \in F /\ k \in Nat /\ k > versions[x]
    BY <1>3
  <2>2. MergedName(versions, c1, x) = <<x, k, c1.cycle>>
    BY DEF MergedName
  <2> HIDE DEF k
  <2>3. <<x, k, c1.cycle>> \notin DOMAIN c1.val /\ <<x, k, c1.cycle>> \notin DOMAIN c2.val
    BY <2>1, NextNameIsNew
  <2> QED BY <2>2, <2>3 DEF k
<1>6. names \cap (DOMAIN c1.val \cup DOMAIN c2.val) = {}
  BY <1>5
<1>7. /\ \A n \in names : new[n] = MergedValue(p, c1, c2, n[1]) /\ n[1] \in diff
      /\ \A x \in diff : MergedName(versions, c1, x) \in names
      /\ \A n \in names : n = MergedName(versions, c1, n[1])
  BY <1>5
<1> HIDE DEF names, new
<1>8. /\ DOMAIN both = DOMAIN c1.val \cup DOMAIN c2.val
      /\ \A n \in DOMAIN c1.val : both[n] = c1.val[n]
      /\ \A n \in DOMAIN c2.val \ DOMAIN c1.val : both[n] = c2.val[n]
  BY DEF Emplace
<1> HIDE DEF both
<1>9. /\ DOMAIN d.val = DOMAIN both \cup names
      /\ \A n \in DOMAIN both : d.val[n] = both[n]
      /\ \A n \in names : d.val[n] = new[n]
  BY <1>2, <1>6, <1>8 DEF Emplace
<1>10. StoreIsClosed(p, c1) /\ StoreIsClosed(p, c2)
  BY DEF StoreOK
<1>11. /\ \A n \in DOMAIN c1.val : n \in DOMAIN d.val /\ d.val[n] = c1.val[n]
       /\ \A n \in DOMAIN c2.val : n \in DOMAIN d.val /\ d.val[n] = c2.val[n]
  BY <1>8, <1>9
<1>12. \A x \in F : CurrentName(c1, x) \in DOMAIN c1.val /\ CurrentName(c2, x) \in DOMAIN c2.val
  BY <1>10 DEF StoreIsClosed
<1>13. \A x \in F : CurrentName(d, x) = IF x \in diff THEN MergedName(versions, c1, x)
                                                      ELSE CurrentName(c1, x)
  BY <1>2, <1>5 DEF CurrentName
<1> DEFINE Fits(n) == /\ d.val[n].worlds = ValueOf(p, d.val, d.val[n].term)
                      /\ d.val[n].term.op = "ite" =>
                           /\ d.val[n].term.args = <<d.val[n].term.args[1], d.val[n].term.args[2]>>
                           /\ ConstraintNames(d.val[n].term.guard) \subseteq DOMAIN d.val
<1>14. ASSUME NEW n \in DOMAIN c1.val
       PROVE  Fits(n)
  BY <1>10, <1>11, MeaningKept
<1>15. ASSUME NEW n \in DOMAIN c2.val
       PROVE  Fits(n)
  BY <1>10, <1>11, MeaningKept
<1>16. ASSUME NEW x \in diff, ~NeedsIte(c1, c2, x)
       PROVE  /\ CurrentValue(d, x) = CurrentValue(c1, x)
              /\ CurrentValue(c1, x).worlds = CurrentValue(c2, x).worlds
              /\ Fits(MergedName(versions, c1, x))
  <2>c. MergedValue(p, c1, c2, x) = CurrentValue(c1, x)
    BY <1>16 DEF MergedValue
  <2>1. d.val[MergedName(versions, c1, x)] = CurrentValue(c1, x)
    <3> DEFINE n == MergedName(versions, c1, x)
    <3>1. n \in names /\ n[1] = x
      BY <1>5, <1>7
    <3> HIDE DEF n
    <3>2. d.val[n] = MergedValue(p, c1, c2, n[1])
      BY <1>7, <1>9, <3>1
    <3> QED BY <2>c, <3>1, <3>2 DEF n
  <2>2. CurrentValue(d, x) = CurrentValue(c1, x)
    BY <1>3, <1>13, <2>1 DEF CurrentValue
  <2>3. CurrentValue(c1, x).term = CurrentValue(c2, x).term
    BY <1>16 DEF NeedsIte
  <2>4. CurrentValue(c1, x).worlds = CurrentValue(c2, x).worlds
    BY <1>3, <1>10, <1>12, <2>3, EqualTerms DEF CurrentValue
  <2> DEFINE m == CurrentName(c1, x)
             n == MergedName(versions, c1, x)
  <2>a. m \in DOMAIN c1.val
    BY <1>3, <1>12
  <2>b. d.val[m] = c1.val[m]
    BY <1>11, <2>a
  <2>5. Fits(m) /\ d.val[m] = c1.val[m]
    <3> HIDE DEF Fits, m
    <3> QED BY <1>14, <2>a, <2>b
  <2>6. d.val[n] = d.val[m]
    BY <2>1, <2>5 DEF CurrentValue
  <2> HIDE DEF m, n
  <2>7. Fits(n)
    BY <2>5, <2>6
  <2> QED BY <2>2, <2>4, <2>7 DEF n
<1>17. ASSUME NEW x \in diff, NeedsIte(c1, c2, x)
       PROVE  /\ CurrentValue(d, x).worlds = (PathWorlds(p, c1) \cap CurrentValue(c1, x).worlds)
                                               \cup (CurrentValue(c2, x).worlds \ PathWorlds(p, c1))
              /\ Fits(MergedName(versions, c1, x))
  <2> DEFINE n == MergedName(versions, c1, x)
             t == [op |-> "ite", guard |-> c1.pc,
                   args |-> <<CurrentName(c1, x), CurrentName(c2, x)>>]
             worlds == (PathWorlds(p, c1) \cap CurrentValue(c1, x).worlds)
                         \cup (CurrentValue(c2, x).worlds \ PathWorlds(p, c1))
  <2>1. d.val[n] = [term |-> t, worlds |-> worlds]
    BY <1>5, <1>7, <1>9, <1>17 DEF MergedValue
  <2>2. /\ t.op = "ite" /\ t.guard = c1.pc /\ t.args = <<t.args[1], t.args[2]>>
        /\ t.args[1] = CurrentName(c1, x) /\ t.args[2] = CurrentName(c2, x)
    OBVIOUS
  <2>3. Satisfying(p, d.val, c1.pc) = PathWorlds(p, c1)
    BY <1>10, <1>11, PathWorldsKept
  <2>4. /\ d.val[CurrentName(c1, x)] = CurrentValue(c1, x)
        /\ d.val[CurrentName(c2, x)] = CurrentValue(c2, x)
    BY <1>3, <1>11, <1>12 DEF CurrentValue
  <2> HIDE DEF t
  <2>5. ValueOf(p, d.val, t) = worlds
    BY <2>2, <2>3, <2>4 DEF ValueOf
  <2>6. ConstraintNames(c1.pc) \subseteq DOMAIN d.val
    BY <1>10, <1>11, ConstraintIsClosed
  <2>7. d.val[n].term = t /\ d.val[n].worlds = worlds
    BY <2>1
  <2>8. CurrentValue(d, x) = d.val[n]
    BY <1>3, <1>13 DEF CurrentValue
  <2> HIDE DEF n, worlds
  <2>9. Fits(n)
    BY <2>2, <2>5, <2>6, <2>7
  <2> QED BY <2>7, <2>8, <2>9 DEF n, worlds
<1>18. ASSUME NEW n \in DOMAIN d.val
       PROVE  Fits(n)
  <2>1. n \in DOMAIN c1.val \/ n \in DOMAIN c2.val \/ n \in names
    BY <1>8, <1>9
  <2>2. CASE n \in names
    <3>1. n[1] \in diff /\ n = MergedName(versions, c1, n[1])
      BY <1>7, <2>2
    <3> HIDE DEF Fits
    <3>2. Fits(MergedName(versions, c1, n[1]))
      BY <1>16, <1>17, <3>1
    <3> QED BY <3>1, <3>2
  <2> QED BY <1>14, <1>15, <2>1, <2>2
<1>19. StoreMeans(p, d)
  BY <1>18, Zenon DEF StoreMeans
<1>20. ASSUME NEW x \in F \ diff
       PROVE  /\ CurrentValue(d, x) = CurrentValue(c1, x)
              /\ CurrentValue(d, x) = CurrentValue(c2, x)
  <2>1. CurrentName(c1, x) = CurrentName(c2, x)
    BY <1>4 DEF CurrentName
  <2> QED BY <1>11, <1>12, <1>13, <2>1 DEF CurrentValue
<1>21. ASSUME NEW x \in F
       PROVE  /\ \A w \in PathWorlds(p, c1) :
                   w \in CurrentValue(d, x).worlds <=> w \in CurrentValue(c1, x).worlds
              /\ \A w \in PathWorlds(p, c2) \ PathWorlds(p, c1) :
                   w \in CurrentValue(d, x).worlds <=> w \in CurrentValue(c2, x).worlds
  <2>1. CASE x \notin diff
    BY <1>20, <2>1
  <2>2. CASE x \in diff /\ ~NeedsIte(c1, c2, x)
    BY <1>16, <2>2
  <2>3. CASE x \in diff /\ NeedsIte(c1, c2, x)
    BY <1>17, <2>3
  <2> QED BY <2>1, <2>2, <2>3
<1> QED BY <1>19, <1>21

-----------------------------------------------------------------------------
(* The values of a summary, with their recursive definition made explicit. *)

(* The earlier constraints of a summary that write the name n.             *)
WritesBefore(s, i, n) == {j \in 1 .. i - 1 : s.hard[j].name = n}

(* What the i-th constraint finds for the name n.                          *)
HardArgument(s, read, w, i, n) ==
  IF WritesBefore(s, i, n) = {} THEN read[n]
  ELSE w[CHOOSE j \in WritesBefore(s, i, n) : TRUE]

(* The body of HardWorlds' recursion, up to constraint m.                  *)
HardValues(all, s, read, m, w) ==
  [i \in 0 .. m |->
     IF i = 0 THEN {}
     ELSE Meaning(all, s.hard[i].term.op,
            [k \in DOMAIN s.hard[i].term.args |->
               HardArgument(s, read, w, i, s.hard[i].term.args[k])])]

(* The values w solve the constraints of the summary.                      *)
Solves(all, s, read, w) == w = HardValues(all, s, read, Len(s.hard), w)

(* The value that a written name has in the end.                           *)
HardOf(s, w) ==
  [n \in WrittenNames(s) |-> w[CHOOSE i \in DOMAIN s.hard : s.hard[i].name = n]]

(* The value of a name, written or read.                                   *)
ValueIn(s, read, w, n) == IF n \in WrittenNames(s) THEN HardOf(s, w)[n] ELSE read[n]

(* All assumptions of the summary are true at v.                           *)
AppliesAt(all, s, read, w, v) ==
  \A i \in DOMAIN s.assumptions :
    (v \in Meaning(all, s.assumptions[i][1].op,
             [k \in DOMAIN s.assumptions[i][1].args |->
                ValueIn(s, read, w, s.assumptions[i][1].args[k])]))
      = s.assumptions[i][2]

(* A value depends on those of the earlier ones only.                      *)
LEMMA HardDepends ==
  ASSUME NEW s, NEW read, NEW i \in Nat, NEW w, NEW v,
         \A j \in 1 .. i - 1 : w[j] = v[j]
  PROVE  \A n : HardArgument(s, read, w, i, n) = HardArgument(s, read, v, i, n)
<1> TAKE n
<1>1. CASE WritesBefore(s, i, n) = {}
  BY <1>1 DEF HardArgument
<1>2. CASE WritesBefore(s, i, n) # {}
  <2> DEFINE j == CHOOSE j \in WritesBefore(s, i, n) : TRUE
  <2>1. j \in WritesBefore(s, i, n)
    BY <1>2
  <2>2. /\ HardArgument(s, read, w, i, n) = w[j]
        /\ HardArgument(s, read, v, i, n) = v[j]
    BY <1>2 DEF HardArgument
  <2> HIDE DEF j
  <2>3. j \in 1 .. i - 1
    BY <2>1 DEF WritesBefore
  <2> QED BY <2>2, <2>3
<1> QED BY <1>1, <1>2

(* The constraints can be solved in order.                                 *)
LEMMA HardExists ==
  ASSUME NEW all, NEW s, NEW read, NEW m \in Nat
  PROVE  \E w : w = HardValues(all, s, read, m, w)
<1> DEFINE None == {n \in Nat : ~ \E w : w = HardValues(all, s, read, n, w)}
           Next1(w, i) == Meaning(all, s.hard[i].term.op,
                            [k \in DOMAIN s.hard[i].term.args |->
                               HardArgument(s, read, w, i, s.hard[i].term.args[k])])
<1>a. ASSUME NEW i \in Nat, NEW w, NEW v, \A j \in 1 .. i - 1 : w[j] = v[j]
      PROVE  Next1(w, i) = Next1(v, i)
  <2>1. \A n : HardArgument(s, read, w, i, n) = HardArgument(s, read, v, i, n)
    BY <1>a, HardDepends
  <2>2. [k \in DOMAIN s.hard[i].term.args |-> HardArgument(s, read, w, i, s.hard[i].term.args[k])]
          = [k \in DOMAIN s.hard[i].term.args |-> HardArgument(s, read, v, i, s.hard[i].term.args[k])]
    BY <2>1
  <2> QED BY <2>2, Zenon
<1> SUFFICES ASSUME None # {} PROVE FALSE
  OBVIOUS
<1> HIDE DEF Next1
<1>1. PICK n \in None : \A k \in None : ~(k < n)
  <2>1. None \in SUBSET Nat
    OBVIOUS
  <2> HIDE DEF None
  <2> QED BY <2>1, LeastNumber
<1>2. n # 0
  <2> DEFINE w0 == [i \in 0 .. 0 |-> {}]
  <2>1. HardValues(all, s, read, 0, w0) = w0
    BY DEF HardValues
  <2> QED BY <2>1
<1>3. n - 1 \in Nat /\ n - 1 < n /\ n \in Nat
  BY <1>2
<1>4. PICK w : w = HardValues(all, s, read, n - 1, w)
  BY <1>1, <1>3
<1> DEFINE longer == [i \in 0 .. n |-> IF i = 0 THEN {} ELSE Next1(w, i)]
<1>5. \A i \in 0 .. n - 1 : longer[i] = w[i]
  <2>1. \A i \in 0 .. n - 1 : w[i] = IF i = 0 THEN {} ELSE Next1(w, i)
    BY <1>4 DEF HardValues, Next1
  <2>2. \A i \in 0 .. n - 1 : i \in 0 .. n
    BY <1>3
  <2> QED BY <2>1, <2>2
<1>6. \A i \in 0 .. n : i = 0 \/ \A j \in 1 .. i - 1 : longer[j] = w[j]
  <2>1. \A i \in 0 .. n : \A j \in 1 .. i - 1 : j \in 0 .. n - 1
    BY <1>3
  <2> HIDE DEF longer
  <2> QED BY <1>5, <2>1
<1>7. \A i \in 0 .. n : longer[i] = IF i = 0 THEN {} ELSE Next1(longer, i)
  <2>1. \A i \in 0 .. n : longer[i] = IF i = 0 THEN {} ELSE Next1(w, i)
    OBVIOUS
  <2> HIDE DEF longer
  <2>2. \A i \in 0 .. n : i = 0 \/ Next1(longer, i) = Next1(w, i)
    BY <1>a, <1>6
  <2> QED BY <2>1, <2>2
<1>8. longer = [i \in 0 .. n |-> longer[i]]
  OBVIOUS
<1> HIDE DEF longer
<1>9. longer = HardValues(all, s, read, n, longer)
  <2>1. HardValues(all, s, read, n, longer) =
          [i \in 0 .. n |-> IF i = 0 THEN {} ELSE Next1(longer, i)]
    BY DEF HardValues, Next1
  <2> QED BY <1>7, <1>8, <2>1
<1> QED BY <1>1, <1>9

(* What a value is.                                                        *)
LEMMA SolvedAt ==
  ASSUME NEW all, NEW s, WrittenInOrder(s), NEW read, NEW w, Solves(all, s, read, w),
         NEW i \in DOMAIN s.hard
  PROVE  w[i] = Meaning(all, s.hard[i].term.op,
                  [k \in DOMAIN s.hard[i].term.args |->
                     ValueIn(s, read, w, s.hard[i].term.args[k])])
<1>1. Len(s.hard) \in Nat /\ DOMAIN s.hard = 1 .. Len(s.hard) /\ i \in 0 .. Len(s.hard) /\ i # 0
      /\ i \in Nat
  BY DEF WrittenInOrder, IsSeq
<1>2. w[i] = Meaning(all, s.hard[i].term.op,
               [k \in DOMAIN s.hard[i].term.args |->
                  HardArgument(s, read, w, i, s.hard[i].term.args[k])])
  <2>1. w = HardValues(all, s, read, Len(s.hard), w)
    BY DEF Solves
  <2> QED BY <1>1, <2>1 DEF HardValues
<1>3. ASSUME NEW k \in DOMAIN s.hard[i].term.args
      PROVE  HardArgument(s, read, w, i, s.hard[i].term.args[k])
               = ValueIn(s, read, w, s.hard[i].term.args[k])
  <2> DEFINE n == s.hard[i].term.args[k]
  <2>0. n \in ArgumentsOf(s.hard[i].term)
    BY DEF ArgumentsOf
  <2> HIDE DEF n
  <2>1. CASE n \in WrittenNames(s)
    <3>1. WritesBefore(s, i, n) # {}
      BY <2>0, <2>1 DEF WrittenInOrder, WritesBefore
    <3> DEFINE j == CHOOSE j \in WritesBefore(s, i, n) : TRUE
               h == CHOOSE h \in DOMAIN s.hard : s.hard[h].name = n
    <3>2. j \in WritesBefore(s, i, n)
      BY <3>1
    <3>3. HardArgument(s, read, w, i, n) = w[j]
      BY <3>1 DEF HardArgument
    <3>4. ValueIn(s, read, w, n) = w[h]
      BY <2>1 DEF ValueIn, HardOf
    <3>5. h \in DOMAIN s.hard /\ s.hard[h].name = n
      BY <2>1 DEF WrittenNames
    <3> HIDE DEF j, h
    <3>6. j \in DOMAIN s.hard /\ s.hard[j].name = n
      BY <1>1, <3>2 DEF WritesBefore
    <3>7. j = h
      BY <3>5, <3>6 DEF WrittenInOrder
    <3> QED BY <3>3, <3>4, <3>7 DEF n
  <2>2. CASE n \notin WrittenNames(s)
    <3>1. \A j \in 1 .. i - 1 : j \in DOMAIN s.hard
      BY <1>1
    <3>2. WritesBefore(s, i, n) = {}
      BY <2>2, <3>1 DEF WritesBefore, WrittenNames
    <3> QED BY <2>2, <3>2 DEF HardArgument, ValueIn, n
  <2> QED BY <2>1, <2>2 DEF n
<1>4. [k \in DOMAIN s.hard[i].term.args |-> HardArgument(s, read, w, i, s.hard[i].term.args[k])]
        = [k \in DOMAIN s.hard[i].term.args |-> ValueIn(s, read, w, s.hard[i].term.args[k])]
  BY <1>3
<1> QED BY <1>2, <1>4, Zenon

(* The name written at i has the i-th value.                               *)
LEMMA HardAt ==
  ASSUME NEW s, WrittenInOrder(s), NEW w, NEW i \in DOMAIN s.hard
  PROVE  /\ s.hard[i].name \in WrittenNames(s)
         /\ HardOf(s, w)[s.hard[i].name] = w[i]
<1> DEFINE n == s.hard[i].name
           h == CHOOSE h \in DOMAIN s.hard : s.hard[h].name = n
<1>1. n \in WrittenNames(s)
  BY DEF WrittenNames
<1>2. HardOf(s, w)[n] = w[h]
  BY <1>1 DEF HardOf
<1>3. h \in DOMAIN s.hard /\ s.hard[h].name = n
  OBVIOUS
<1> HIDE DEF h
<1>4. h = i
  BY <1>3 DEF WrittenInOrder
<1> QED BY <1>1, <1>2, <1>4

(* Where what a summary reads agrees, so does what it writes,              *)
LEMMA SolutionsAgree ==
  ASSUME NEW s, WrittenInOrder(s), \A t \in SummaryTerms(s) : IsExpression(t),
         NEW all, NEW read, NEW w, Solves(all, s, read, w), NEW u \in all,
         NEW allB, NEW readB, NEW wB, Solves(allB, s, readB, wB), NEW v \in allB,
         \A n \in SummaryNames(s) \ WrittenNames(s) : u \in read[n] <=> v \in readB[n]
  PROVE  \A n \in SummaryNames(s) : u \in ValueIn(s, read, w, n) <=> v \in ValueIn(s, readB, wB, n)
<1>1. Len(s.hard) \in Nat /\ DOMAIN s.hard = 1 .. Len(s.hard)
  BY DEF WrittenInOrder, IsSeq
<1> DEFINE Agree(n) == u \in ValueIn(s, read, w, n) <=> v \in ValueIn(s, readB, wB, n)
<1>2. ASSUME NEW n \in SummaryNames(s) \ WrittenNames(s)
      PROVE  Agree(n)
  BY DEF ValueIn
<1>3. ASSUME NEW i \in DOMAIN s.hard
      PROVE  Agree(s.hard[i].name) <=> (u \in w[i] <=> v \in wB[i])
  BY HardAt DEF ValueIn
<1>4. ASSUME NEW i \in DOMAIN s.hard, \A n \in ArgumentsOf(s.hard[i].term) : Agree(n)
      PROVE  Agree(s.hard[i].name)
  <2> DEFINE t == s.hard[i].term
             f == [k \in DOMAIN t.args |-> ValueIn(s, read, w, t.args[k])]
             g == [k \in DOMAIN t.args |-> ValueIn(s, readB, wB, t.args[k])]
  <2>1. w[i] = Meaning(all, t.op, f) /\ wB[i] = Meaning(allB, t.op, g)
    BY SolvedAt
  <2>2. IsExpression(t)
    BY DEF SummaryTerms
  <2>3. \A k \in DOMAIN t.args : u \in f[k] <=> v \in g[k]
    <3>1. \A k \in DOMAIN t.args : Agree(t.args[k])
      BY <1>4 DEF ArgumentsOf
    <3> QED BY <3>1
  <2> HIDE DEF f, g, t
  <2>4. u \in Meaning(all, t.op, f) <=> v \in Meaning(allB, t.op, g)
    BY <2>2, <2>3, MeaningAt
  <2>5. u \in w[i] <=> v \in wB[i]
    BY <2>1, <2>4
  <2> HIDE DEF Agree
  <2> QED BY <1>3, <2>5
<1> DEFINE Bad == {i \in DOMAIN s.hard : ~Agree(s.hard[i].name)}
<1>5. Bad = {}
  <2> SUFFICES ASSUME Bad # {} PROVE FALSE
    OBVIOUS
  <2>1. Bad \in SUBSET Nat
    BY <1>1
  <2>2. PICK i \in Bad : \A j \in Bad : ~(j < i)
    <3> HIDE DEF Bad
    <3> QED BY <2>1, LeastNumber
  <2> HIDE DEF Agree
  <2>3. i \in DOMAIN s.hard /\ ~Agree(s.hard[i].name) /\ i \in Nat
    BY <1>1
  <2>4. PICK n \in ArgumentsOf(s.hard[i].term) : ~Agree(n)
    BY <1>4, <2>3
  <2>5. n \in SummaryNames(s)
    <3>1. s.hard[i].term \in SummaryTerms(s)
      BY <2>3 DEF SummaryTerms
    <3> QED BY <3>1 DEF SummaryNames
  <2>6. n \in WrittenNames(s)
    BY <1>2, <2>4, <2>5
  <2>7. PICK j \in 1 .. i - 1 : s.hard[j].name = n
    BY <2>3, <2>4, <2>6 DEF WrittenInOrder
  <2>8. j \in DOMAIN s.hard /\ j < i
    BY <1>1, <2>3
  <2>9. j \in Bad
    BY <2>4, <2>7, <2>8
  <2> QED BY <2>2, <2>8, <2>9
<1>6. \A n \in WrittenNames(s) : Agree(n)
  <2> HIDE DEF Agree
  <2> QED BY <1>5 DEF WrittenNames
<1> QED BY <1>2, <1>6

(* and so does whether it applies.                                         *)
LEMMA AssumptionsAgree ==
  ASSUME NEW s, WrittenInOrder(s), \A t \in SummaryTerms(s) : IsExpression(t),
         NEW all, NEW read, NEW w, Solves(all, s, read, w), NEW u \in all,
         NEW allB, NEW readB, NEW wB, Solves(allB, s, readB, wB), NEW v \in allB,
         \A n \in SummaryNames(s) \ WrittenNames(s) : u \in read[n] <=> v \in readB[n]
  PROVE  AppliesAt(all, s, read, w, u) <=> AppliesAt(allB, s, readB, wB, v)
<1>1. ASSUME NEW i \in DOMAIN s.assumptions
      PROVE  u \in Meaning(all, s.assumptions[i][1].op,
                     [k \in DOMAIN s.assumptions[i][1].args |->
                        ValueIn(s, read, w, s.assumptions[i][1].args[k])])
               <=> v \in Meaning(allB, s.assumptions[i][1].op,
                     [k \in DOMAIN s.assumptions[i][1].args |->
                        ValueIn(s, readB, wB, s.assumptions[i][1].args[k])])
  <2> DEFINE t == s.assumptions[i][1]
             f == [k \in DOMAIN t.args |-> ValueIn(s, read, w, t.args[k])]
             g == [k \in DOMAIN t.args |-> ValueIn(s, readB, wB, t.args[k])]
  <2>1. t \in SummaryTerms(s)
    BY DEF SummaryTerms
  <2>2. \A k \in DOMAIN t.args : t.args[k] \in SummaryNames(s)
    BY <2>1 DEF SummaryNames, ArgumentsOf
  <2>3. \A k \in DOMAIN t.args : u \in f[k] <=> v \in g[k]
    BY <2>2, SolutionsAgree
  <2> HIDE DEF f, g, t
  <2>4. u \in Meaning(all, t.op, f) <=> v \in Meaning(allB, t.op, g)
    BY <2>1, <2>3, MeaningAt
  <2> QED BY <2>4 DEF f, g, t
<1> DEFINE one(i) == u \in Meaning(all, s.assumptions[i][1].op,
                        [k \in DOMAIN s.assumptions[i][1].args |->
                           ValueIn(s, read, w, s.assumptions[i][1].args[k])])
           two(i) == v \in Meaning(allB, s.assumptions[i][1].op,
                        [k \in DOMAIN s.assumptions[i][1].args |->
                           ValueIn(s, readB, wB, s.assumptions[i][1].args[k])])
<1>2. /\ AppliesAt(all, s, read, w, u) <=>
           \A i \in DOMAIN s.assumptions : one(i) = s.assumptions[i][2]
      /\ AppliesAt(allB, s, readB, wB, v) <=>
           \A i \in DOMAIN s.assumptions : two(i) = s.assumptions[i][2]
  BY Zenon DEF AppliesAt
<1>3. \A i \in DOMAIN s.assumptions : one(i) = two(i)
  BY <1>1
<1> HIDE DEF one, two
<1> QED BY <1>2, <1>3

-----------------------------------------------------------------------------
(* The three readings of a summary.                                        *)

(* A summary reads its names only.                                         *)
LEMMA ArgumentsOfSummary ==
  ASSUME NEW s, WrittenInOrder(s)
  PROVE  /\ \A i \in 0 .. Len(s.hard) : i # 0 => \A k \in DOMAIN s.hard[i].term.args :
              s.hard[i].term.args[k] \in SummaryNames(s)
         /\ \A i \in DOMAIN s.assumptions : \A k \in DOMAIN s.assumptions[i][1].args :
              s.assumptions[i][1].args[k] \in SummaryNames(s)
<1>1. \A i \in 0 .. Len(s.hard) : i # 0 => i \in DOMAIN s.hard
  BY DEF WrittenInOrder, IsSeq
<1>2. \A t \in SummaryTerms(s) : \A k \in DOMAIN t.args : t.args[k] \in SummaryNames(s)
  BY DEF SummaryNames, ArgumentsOf
<1>3. /\ \A i \in DOMAIN s.hard : s.hard[i].term \in SummaryTerms(s)
      /\ \A i \in DOMAIN s.assumptions : s.assumptions[i][1] \in SummaryTerms(s)
  BY DEF SummaryTerms
<1> QED BY <1>1, <1>2, <1>3

(* Its effect on the start environments of a graph.                        *)
ReadAtEntry(h, s) == [n \in SummaryNames(s) |-> {env \in Environments(h) : n[1][2] \in env}]

(* Effect is what the solution over the environments says.                 *)
LEMMA EffectSolved ==
  ASSUME NEW h, NEW s, WrittenInOrder(s)
  PROVE  \E w : /\ Solves(Environments(h), s, ReadAtEntry(h, s), w)
                /\ Effect(h, s).applies =
                     {env \in Environments(h) :
                        AppliesAt(Environments(h), s, ReadAtEntry(h, s), w, env)}
                /\ Effect(h, s).final =
                     [x \in WrittenVariables(s) |-> HardOf(s, w)[<<x, HighestVersion(s, x)>>]]
<1> DEFINE all == Environments(h)
           Read(n) == {env \in Environments(h) : n[1][2] \in env}
           read == ReadAtEntry(h, s)
           Written(i, n) == {j \in 1 .. i - 1 : s.hard[j].name = n}
           Body(w) == [i \in 0 .. Len(s.hard) |->
                         IF i = 0 THEN {}
                         ELSE Meaning(all, s.hard[i].term.op,
                                [k \in DOMAIN s.hard[i].term.args |->
                                   IF Written(i, s.hard[i].term.args[k]) = {}
                                   THEN Read(s.hard[i].term.args[k])
                                   ELSE w[CHOOSE j \in Written(i, s.hard[i].term.args[k]) : TRUE]])]
           w == CHOOSE w : w = Body(w)
           Value(n) == IF n \in WrittenNames(s) THEN HardOf(s, w)[n] ELSE Read(n)
           Holds(i) == Meaning(all, s.assumptions[i][1].op,
                         [k \in DOMAIN s.assumptions[i][1].args |->
                            Value(s.assumptions[i][1].args[k])])
<1>1. Effect(h, s) =
        [applies |-> {env \in all : \A i \in DOMAIN s.assumptions :
                        (env \in Holds(i)) = s.assumptions[i][2]},
         final |-> [x \in WrittenVariables(s) |-> HardOf(s, w)[<<x, HighestVersion(s, x)>>]]]
  BY Zenon DEF Effect, HardWorlds, HardOf
<1>2. ASSUME NEW v
      PROVE  Body(v) = HardValues(all, s, read, Len(s.hard), v)
  <2>1. ASSUME NEW i \in 0 .. Len(s.hard), i # 0
        PROVE  [k \in DOMAIN s.hard[i].term.args |->
                  IF Written(i, s.hard[i].term.args[k]) = {}
                  THEN Read(s.hard[i].term.args[k])
                  ELSE v[CHOOSE j \in Written(i, s.hard[i].term.args[k]) : TRUE]]
                 = [k \in DOMAIN s.hard[i].term.args |->
                      HardArgument(s, read, v, i, s.hard[i].term.args[k])]
    <3>2. \A k \in DOMAIN s.hard[i].term.args : s.hard[i].term.args[k] \in SummaryNames(s)
      BY <2>1, ArgumentsOfSummary
    <3>3. \A n \in SummaryNames(s) : read[n] = Read(n)
      BY DEF ReadAtEntry
    <3>4. \A n \in SummaryNames(s) :
            (IF Written(i, n) = {} THEN Read(n) ELSE v[CHOOSE j \in Written(i, n) : TRUE])
              = HardArgument(s, read, v, i, n)
      <4> HIDE DEF read, Read
      <4> QED BY <3>3 DEF HardArgument, WritesBefore
    <3> HIDE DEF read, Read, Written
    <3> QED BY <3>2, <3>4
  <2> HIDE DEF read, Read, Written
  <2>2. \A i \in 0 .. Len(s.hard) : Body(v)[i] = HardValues(all, s, read, Len(s.hard), v)[i]
    BY <2>1 DEF HardValues
  <2> QED BY <2>2, Zenon DEF HardValues
<1>3. \E v : v = Body(v)
  <2> HIDE DEF Body, read
  <2>1. Len(s.hard) \in Nat
    BY DEF WrittenInOrder, IsSeq
  <2> QED BY <1>2, <2>1, HardExists
<1>4. w = Body(w)
  <2> HIDE DEF Body
  <2> QED BY <1>3, Zenon
<1>5. Solves(all, s, read, w)
  <2> HIDE DEF Body, w, read
  <2> QED BY <1>2, <1>4 DEF Solves
<1> HIDE DEF w
<1>6. \A n \in SummaryNames(s) : Value(n) = ValueIn(s, read, w, n)
  BY DEF ValueIn, ReadAtEntry
<1> HIDE DEF Value, read
<1>7. ASSUME NEW i \in DOMAIN s.assumptions
      PROVE  Holds(i) = Meaning(all, s.assumptions[i][1].op,
                          [k \in DOMAIN s.assumptions[i][1].args |->
                             ValueIn(s, read, w, s.assumptions[i][1].args[k])])
  <2>1. \A k \in DOMAIN s.assumptions[i][1].args : s.assumptions[i][1].args[k] \in SummaryNames(s)
    BY ArgumentsOfSummary
  <2>2. [k \in DOMAIN s.assumptions[i][1].args |-> Value(s.assumptions[i][1].args[k])]
          = [k \in DOMAIN s.assumptions[i][1].args |->
               ValueIn(s, read, w, s.assumptions[i][1].args[k])]
    BY <1>6, <2>1
  <2> QED BY <2>2, Zenon
<1>8. ASSUME NEW env
      PROVE  (\A i \in DOMAIN s.assumptions : (env \in Holds(i)) = s.assumptions[i][2])
               <=> AppliesAt(all, s, read, w, env)
  <2> HIDE DEF Holds
  <2> QED BY <1>7, Zenon DEF AppliesAt
<1>9. Effect(h, s).applies = {env \in all : AppliesAt(all, s, read, w, env)}
  <2> HIDE DEF Holds
  <2>1. Effect(h, s).applies = {env \in all : \A i \in DOMAIN s.assumptions :
                                  (env \in Holds(i)) = s.assumptions[i][2]}
    BY <1>1
  <2> QED BY <1>8, <2>1
<1>10. Effect(h, s).final = [x \in WrittenVariables(s) |-> HardOf(s, w)[<<x, HighestVersion(s, x)>>]]
  <2> HIDE DEF Holds
  <2> QED BY <1>1
<1> QED BY <1>5, <1>9, <1>10 DEF read

(* What the model knows in which it is looked up.                          *)
ReadInModel(c, s) ==
  [n \in SummaryNames(s) |-> IF n[1][1] = Scope(c) THEN CurrentValue(c, n[1]).worlds ELSE {}]

(* IsSummaryApplicable is what the solution over the worlds says.          *)
LEMMA ApplicableSolved ==
  ASSUME NEW p, NEW c, NEW s, WrittenInOrder(s)
  PROVE  \E w : /\ Solves(Worlds(p), s, ReadInModel(c, s), w)
                /\ IsSummaryApplicable(p, c, s) <=>
                     \E u \in PathWorlds(p, c) : AppliesAt(Worlds(p), s, ReadInModel(c, s), w, u)
<1> DEFINE all == Worlds(p)
           Read(n) == IF n[1][1] = Scope(c) THEN CurrentValue(c, n[1]).worlds ELSE {}
           read == ReadInModel(c, s)
           Written(i, n) == {j \in 1 .. i - 1 : s.hard[j].name = n}
           Body(w) == [i \in 0 .. Len(s.hard) |->
                         IF i = 0 THEN {}
                         ELSE Meaning(all, s.hard[i].term.op,
                                [k \in DOMAIN s.hard[i].term.args |->
                                   IF Written(i, s.hard[i].term.args[k]) = {}
                                   THEN Read(s.hard[i].term.args[k])
                                   ELSE w[CHOOSE j \in Written(i, s.hard[i].term.args[k]) : TRUE]])]
           w == CHOOSE w : w = Body(w)
           Value(n) == IF n \in WrittenNames(s) THEN HardOf(s, w)[n] ELSE Read(n)
           Holds(i) == Meaning(all, s.assumptions[i][1].op,
                         [k \in DOMAIN s.assumptions[i][1].args |->
                            Value(s.assumptions[i][1].args[k])])
<1>1. IsSummaryApplicable(p, c, s) <=>
        \E u \in PathWorlds(p, c) : \A i \in DOMAIN s.assumptions :
          (u \in Holds(i)) = s.assumptions[i][2]
  BY Zenon DEF IsSummaryApplicable, HardWorlds, HardOf
<1>2. ASSUME NEW v
      PROVE  Body(v) = HardValues(all, s, read, Len(s.hard), v)
  <2>1. ASSUME NEW i \in 0 .. Len(s.hard), i # 0
        PROVE  [k \in DOMAIN s.hard[i].term.args |->
                  IF Written(i, s.hard[i].term.args[k]) = {}
                  THEN Read(s.hard[i].term.args[k])
                  ELSE v[CHOOSE j \in Written(i, s.hard[i].term.args[k]) : TRUE]]
                 = [k \in DOMAIN s.hard[i].term.args |->
                      HardArgument(s, read, v, i, s.hard[i].term.args[k])]
    <3>2. \A k \in DOMAIN s.hard[i].term.args : s.hard[i].term.args[k] \in SummaryNames(s)
      BY <2>1, ArgumentsOfSummary
    <3>3. \A n \in SummaryNames(s) : read[n] = Read(n)
      BY DEF ReadInModel
    <3>4. \A n \in SummaryNames(s) :
            (IF Written(i, n) = {} THEN Read(n) ELSE v[CHOOSE j \in Written(i, n) : TRUE])
              = HardArgument(s, read, v, i, n)
      <4> HIDE DEF read, Read
      <4> QED BY <3>3 DEF HardArgument, WritesBefore
    <3> HIDE DEF read, Read, Written
    <3> QED BY <3>2, <3>4
  <2> HIDE DEF read, Read, Written
  <2>2. \A i \in 0 .. Len(s.hard) : Body(v)[i] = HardValues(all, s, read, Len(s.hard), v)[i]
    BY <2>1 DEF HardValues
  <2> QED BY <2>2, Zenon DEF HardValues
<1>3. \E v : v = Body(v)
  <2> HIDE DEF Body, read
  <2>1. Len(s.hard) \in Nat
    BY DEF WrittenInOrder, IsSeq
  <2> QED BY <1>2, <2>1, HardExists
<1>4. w = Body(w)
  <2> HIDE DEF Body
  <2> QED BY <1>3, Zenon
<1>5. Solves(all, s, read, w)
  <2> HIDE DEF Body, w, read
  <2> QED BY <1>2, <1>4 DEF Solves
<1> HIDE DEF w
<1>6. \A n \in SummaryNames(s) : Value(n) = ValueIn(s, read, w, n)
  BY DEF ValueIn, ReadInModel
<1> HIDE DEF Value, read
<1>7. ASSUME NEW i \in DOMAIN s.assumptions
      PROVE  Holds(i) = Meaning(all, s.assumptions[i][1].op,
                          [k \in DOMAIN s.assumptions[i][1].args |->
                             ValueIn(s, read, w, s.assumptions[i][1].args[k])])
  <2>1. \A k \in DOMAIN s.assumptions[i][1].args : s.assumptions[i][1].args[k] \in SummaryNames(s)
    BY ArgumentsOfSummary
  <2>2. [k \in DOMAIN s.assumptions[i][1].args |-> Value(s.assumptions[i][1].args[k])]
          = [k \in DOMAIN s.assumptions[i][1].args |->
               ValueIn(s, read, w, s.assumptions[i][1].args[k])]
    BY <1>6, <2>1
  <2> QED BY <2>2, Zenon
<1>8. ASSUME NEW u
      PROVE  (\A i \in DOMAIN s.assumptions : (u \in Holds(i)) = s.assumptions[i][2])
               <=> AppliesAt(all, s, read, w, u)
  <2> HIDE DEF Holds
  <2> QED BY <1>7, Zenon DEF AppliesAt
<1>9. IsSummaryApplicable(p, c, s) <=>
        \E u \in PathWorlds(p, c) : AppliesAt(all, s, read, w, u)
  <2> HIDE DEF Holds
  <2> QED BY <1>1, <1>8
<1> QED BY <1>5, <1>9 DEF read

(* What the context knows that it is applied to.                           *)
ReadInContext(versions, c, s) ==
  [n \in SummaryNames(s) |-> c.val[Reversion(versions, c, s, n)].worlds]

(* The worlds of the names that ApplySummary writes.                       *)
AppliedWorldsOf(p, versions, c, s) ==
  LET Read(n) == c.val[Reversion(versions, c, s, n)].worlds
  IN  HardWorlds(Worlds(p), s, Read)

(* They are a solution, too.                                               *)
LEMMA AppliedSolved ==
  ASSUME NEW p, NEW versions, NEW c, NEW s, WrittenInOrder(s)
  PROVE  \E w : /\ Solves(Worlds(p), s, ReadInContext(versions, c, s), w)
                /\ AppliedWorldsOf(p, versions, c, s) = HardOf(s, w)
<1> DEFINE all == Worlds(p)
           Read(n) == c.val[Reversion(versions, c, s, n)].worlds
           read == ReadInContext(versions, c, s)
           Written(i, n) == {j \in 1 .. i - 1 : s.hard[j].name = n}
           Body(w) == [i \in 0 .. Len(s.hard) |->
                         IF i = 0 THEN {}
                         ELSE Meaning(all, s.hard[i].term.op,
                                [k \in DOMAIN s.hard[i].term.args |->
                                   IF Written(i, s.hard[i].term.args[k]) = {}
                                   THEN Read(s.hard[i].term.args[k])
                                   ELSE w[CHOOSE j \in Written(i, s.hard[i].term.args[k]) : TRUE]])]
           w == CHOOSE w : w = Body(w)
<1>1. AppliedWorldsOf(p, versions, c, s) = HardOf(s, w)
  BY Zenon DEF AppliedWorldsOf, HardWorlds, HardOf
<1>2. ASSUME NEW v
      PROVE  Body(v) = HardValues(all, s, read, Len(s.hard), v)
  <2>1. ASSUME NEW i \in 0 .. Len(s.hard), i # 0
        PROVE  [k \in DOMAIN s.hard[i].term.args |->
                  IF Written(i, s.hard[i].term.args[k]) = {}
                  THEN Read(s.hard[i].term.args[k])
                  ELSE v[CHOOSE j \in Written(i, s.hard[i].term.args[k]) : TRUE]]
                 = [k \in DOMAIN s.hard[i].term.args |->
                      HardArgument(s, read, v, i, s.hard[i].term.args[k])]
    <3>2. \A k \in DOMAIN s.hard[i].term.args : s.hard[i].term.args[k] \in SummaryNames(s)
      BY <2>1, ArgumentsOfSummary
    <3>3. \A n \in SummaryNames(s) : read[n] = Read(n)
      BY DEF ReadInContext
    <3>4. \A n \in SummaryNames(s) :
            (IF Written(i, n) = {} THEN Read(n) ELSE v[CHOOSE j \in Written(i, n) : TRUE])
              = HardArgument(s, read, v, i, n)
      <4> HIDE DEF read, Read
      <4> QED BY <3>3 DEF HardArgument, WritesBefore
    <3> HIDE DEF read, Read, Written
    <3> QED BY <3>2, <3>4
  <2> HIDE DEF read, Read, Written
  <2>2. \A i \in 0 .. Len(s.hard) : Body(v)[i] = HardValues(all, s, read, Len(s.hard), v)[i]
    BY <2>1 DEF HardValues
  <2> QED BY <2>2, Zenon DEF HardValues
<1>3. \E v : v = Body(v)
  <2> HIDE DEF Body, read
  <2>1. Len(s.hard) \in Nat
    BY DEF WrittenInOrder, IsSeq
  <2> QED BY <1>2, <2>1, HardExists
<1>4. w = Body(w)
  <2> HIDE DEF Body
  <2> QED BY <1>3, Zenon
<1>5. Solves(all, s, read, w)
  <2> HIDE DEF Body, w, read
  <2> QED BY <1>2, <1>4 DEF Solves
<1> HIDE DEF w, Body
<1> QED BY <1>1, <1>5, Zenon

(* The value of a term over a solution.                                    *)
TermValue(all, s, read, w, t) ==
  Meaning(all, t.op, [k \in DOMAIN t.args |-> ValueIn(s, read, w, t.args[k])])

(* Every constraint has the value of its term.                             *)
SolvedTerms(all, s, read, w) ==
  \A i \in DOMAIN s.hard : w[i] = TermValue(all, s, read, w, s.hard[i].term)

(* In a summary that writes before it reads a solution gives them that.    *)
LEMMA TermsAreSolved ==
  ASSUME NEW all, NEW s, WrittenInOrder(s), NEW read, NEW w, Solves(all, s, read, w)
  PROVE  SolvedTerms(all, s, read, w)
<1>1. ASSUME NEW i \in DOMAIN s.hard
      PROVE  w[i] = TermValue(all, s, read, w, s.hard[i].term)
  <2>1. w[i] = Meaning(all, s.hard[i].term.op,
                 [k \in DOMAIN s.hard[i].term.args |-> ValueIn(s, read, w, s.hard[i].term.args[k])])
    BY SolvedAt
  <2> QED BY <2>1 DEF TermValue
<1> QED BY <1>1 DEF SolvedTerms

(* The variables of the running graph that are true in world w.            *)
TrueVariables(p, c, w) ==
  {x \in CfgOf(p, Scope(c)).vars : w \in CurrentValue(c, <<Scope(c), x>>).worlds}

(* Replacing the arguments of a term.                                      *)
LEMMA ArgumentsReplaced ==
  ASSUME NEW t, IsTerm(t), NEW a, NEW u, u = [t EXCEPT !.args = a]
  PROVE  u.op = t.op /\ u.args = a
<1>1. CASE t = [op |-> t.op, args |-> t.args]
  <2>1. u = [op |-> t.op, args |-> a]
    BY <1>1
  <2> QED BY <2>1
<1>2. CASE t = [op |-> t.op, guard |-> t.guard, args |-> t.args]
  <2>1. u = [op |-> t.op, guard |-> t.guard, args |-> a]
    BY <1>2
  <2> QED BY <2>1
<1> QED BY <1>1, <1>2 DEF IsTerm

(* In a context a summary reads what its start environment reads.          *)
LEMMA ReadingsAgree ==
  ASSUME NEW p, NEW c, NEW s, IsOwn(p, Scope(c), s), NEW w, NEW versions,
         NEW n \in SummaryNames(s) \ WrittenNames(s),
         NEW env, env = TrueVariables(p, c, w), NEW h, h = CfgOf(p, Scope(c))
  PROVE  /\ env \in Environments(h)
         /\ w \in ReadInContext(versions, c, s)[n] <=> env \in ReadAtEntry(h, s)[n]
         /\ w \in ReadInModel(c, s)[n] <=> env \in ReadAtEntry(h, s)[n]
<1>1. n[1] = <<Scope(c), n[1][2]>> /\ n[1][2] \in h.vars /\ n[1][1] = Scope(c)
  BY DEF IsOwn
<1>2. env \in Environments(h)
  BY DEF Environments, TrueVariables
<1>3. n[1][2] \in env <=> w \in CurrentValue(c, n[1]).worlds
  BY <1>1 DEF TrueVariables
<1>4. env \in ReadAtEntry(h, s)[n] <=> n[1][2] \in env
  BY <1>2 DEF ReadAtEntry
<1>5. ReadInContext(versions, c, s)[n] = CurrentValue(c, n[1]).worlds
  BY DEF ReadInContext, Reversion, CurrentValue
<1>6. ReadInModel(c, s)[n] = CurrentValue(c, n[1]).worlds
  BY <1>1 DEF ReadInModel
<1> QED BY <1>2, <1>3, <1>4, <1>5, <1>6

(* The lookup finds the summaries that apply in some run.                  *)
LEMMA ApplicableMeans ==
  ASSUME NEW p, NEW c, NEW s, IsOwn(p, Scope(c), s)
  PROVE  IsSummaryApplicable(p, c, s) <=>
           \E w \in PathWorlds(p, c) :
             TrueVariables(p, c, w) \in Effect(CfgOf(p, Scope(c)), s).applies
<1> DEFINE h == CfgOf(p, Scope(c))
           read == ReadInModel(c, s)
           readE == ReadAtEntry(h, s)
<1>1. WrittenInOrder(s) /\ \A t \in SummaryTerms(s) : IsExpression(t)
  BY DEF IsOwn
<1>2. PICK W : /\ Solves(Worlds(p), s, read, W)
               /\ IsSummaryApplicable(p, c, s) <=>
                    \E w \in PathWorlds(p, c) : AppliesAt(Worlds(p), s, read, W, w)
  BY <1>1, ApplicableSolved
<1>3. PICK V : /\ Solves(Environments(h), s, readE, V)
               /\ Effect(h, s).applies =
                     {env \in Environments(h) : AppliesAt(Environments(h), s, readE, V, env)}
  BY <1>1, EffectSolved
<1>4. ASSUME NEW w \in Worlds(p)
      PROVE  AppliesAt(Worlds(p), s, read, W, w) <=> TrueVariables(p, c, w) \in Effect(h, s).applies
  <2> DEFINE env == TrueVariables(p, c, w)
  <2>1. env \in Environments(h)
    BY DEF Environments, TrueVariables
  <2>2. \A n \in SummaryNames(s) \ WrittenNames(s) : w \in read[n] <=> env \in readE[n]
    BY ReadingsAgree
  <2> HIDE DEF env, read, readE, h
  <2>3. AppliesAt(Worlds(p), s, read, W, w) <=> AppliesAt(Environments(h), s, readE, V, env)
    BY <1>1, <1>2, <1>3, <2>1, <2>2, AssumptionsAgree
  <2> QED BY <1>3, <2>1, <2>3 DEF env
<1>5. \A w \in PathWorlds(p, c) : w \in Worlds(p)
  BY SatisfyingAt DEF PathWorlds
<1> HIDE DEF h, read, readE
<1> QED BY <1>2, <1>4, <1>5 DEF h

(* Applying a summary does to the context what it does to its runs.        *)
LEMMA ApplyMeans ==
  ASSUME NEW p, WellFormedSummaries(p), ReferencesResolve(p),
         NEW f \in DOMAIN p.summaries, NEW i0 \in DOMAIN p.summaries[f],
         NEW s, s = p.summaries[f][i0],
         NEW c, ContextOK(p, c), c.cycle \in Nat, Scope(c) \in DOMAIN p.scopes,
         IsOwn(p, Scope(c), s), StoreMeans(p, c),
         NEW versions \in [FlattenedInterface(p) -> Nat], StoreOK(p, versions, c),
         NEW d, d = ApplySummary(p, versions, c, s),
         NEW h, h = CfgOf(p, Scope(c))
  PROVE  /\ StoreMeans(p, d)
         /\ PathWorlds(p, d) =
              {w \in PathWorlds(p, c) : TrueVariables(p, c, w) \in Effect(h, s).applies}
         /\ \A w \in Worlds(p) : \A x \in FlattenedInterface(p) :
              w \in CurrentValue(d, x).worlds <=>
                IF x \in WrittenVariables(s)
                THEN TrueVariables(p, c, w) \in Effect(h, s).final[x]
                ELSE w \in CurrentValue(c, x).worlds
<1> DEFINE F == FlattenedInterface(p)
           R(n) == Reversion(versions, c, s, n)
           RTerm(t) == [t EXCEPT !.args = [j \in DOMAIN @ |-> R(@[j])]]
           names == {R(n) : n \in WrittenNames(s)}
           Read(n) == c.val[R(n)].worlds
           hard == HardWorlds(Worlds(p), s, Read)
           ConstraintOf(n) == CHOOSE j \in DOMAIN s.hard : R(s.hard[j].name) = n
           New(n) == [term |-> RTerm(s.hard[ConstraintOf(n)].term),
                      worlds |-> hard[s.hard[ConstraintOf(n)].name]]
           assumptions == {<<RTerm(s.assumptions[j][1]), s.assumptions[j][2]>> :
                             j \in DOMAIN s.assumptions}
           new == [n \in names |-> New(n)]
<1>0. PICK read : read = ReadInContext(versions, c, s)
  OBVIOUS
<1>1. Record(c) /\ c.ver \in [F -> Nat]
  BY DEF ContextOK, Record
<1>2. d = [c EXCEPT !.val = Emplace(@, names, new),
                    !.pc = {cube \cup assumptions : cube \in @},
                    !.ver = [x \in DOMAIN @ |->
                               IF x \in WrittenVariables(s)
                               THEN versions[x] + 1 + HighestVersion(s, x) ELSE @[x]]]
  BY Zenon DEF ApplySummary
<1>3. WrittenInOrder(s) /\ \A t \in SummaryTerms(s) : IsExpression(t)
  BY DEF IsOwn
<1>a. hard = AppliedWorldsOf(p, versions, c, s)
  BY Zenon DEF AppliedWorldsOf
<1>4. PICK W : Solves(Worlds(p), s, read, W) /\ hard = HardOf(s, W)
  <2> HIDE DEF hard
  <2> QED BY <1>0, <1>3, <1>a, AppliedSolved
<1>5. \A n \in names : New(n).term = RTerm(s.hard[ConstraintOf(n)].term)
                       /\ New(n).worlds = HardOf(s, W)[s.hard[ConstraintOf(n)].name]
                       /\ new[n] = New(n)
  <2> HIDE DEF RTerm, ConstraintOf, hard, names
  <2> QED BY <1>4
<1> HIDE DEF new, hard, Read, New
<1>6. /\ d.val = Emplace(c.val, names, new) /\ d.cycle = c.cycle
      /\ d.pc = {cube \cup assumptions : cube \in c.pc}
      /\ d.ver = [x \in F |-> IF x \in WrittenVariables(s)
                              THEN versions[x] + 1 + HighestVersion(s, x) ELSE c.ver[x]]
  <2> HIDE DEF names, assumptions
  <2> QED BY <1>1, <1>2 DEF Record
<1>7. /\ DOMAIN d.val = DOMAIN c.val \cup names
      /\ \A n \in WrittenNames(s) :
           /\ n[1] \in F
           /\ n[2] + versions[n[1]] + 1 \in Nat
           /\ n[2] + versions[n[1]] + 1 > versions[n[1]]
           /\ R(n) = <<n[1], n[2] + versions[n[1]] + 1, c.cycle>>
      /\ \A n \in DOMAIN c.val : d.val[n] = c.val[n]
  <2> DEFINE later == AppliedVersions(versions, d, s)
  <2>1. /\ DOMAIN d.val = DOMAIN c.val \cup AppliedNames(versions, c, s)
        /\ \A n \in WrittenNames(s) :
             /\ n[1] \in FlattenedInterface(p)
             /\ n[2] + versions[n[1]] + 1 \in Nat
             /\ n[2] + versions[n[1]] + 1 > versions[n[1]]
             /\ Reversion(versions, c, s, n) = <<n[1], n[2] + versions[n[1]] + 1, c.cycle>>
        /\ \A n \in DOMAIN c.val : d.val[n] = c.val[n]
    <3> HIDE DEF R, RTerm, names, ConstraintOf, assumptions, later
    <3>1. later = AppliedVersions(versions, d, s)
      BY DEF later
    <3> QED BY <3>1, ApplySummaryStore
  <2>2. names = AppliedNames(versions, c, s)
    BY DEF AppliedNames
  <2> HIDE DEF names
  <2> QED BY <2>1, <2>2
<1>8. StoreIsClosed(p, c)
  BY DEF StoreOK
<1>9. ASSUME NEW n \in SummaryNames(s)
      PROVE  n = <<n[1], n[2]>> /\ n[1] \in F /\ n[2] \in Nat
  BY DEF IsOwn, FlattenedInterface
<1>10. \A n \in WrittenNames(s) : n \in SummaryNames(s)
  BY DEF SummaryNames
<1>11. \A n : n \notin WrittenNames(s) => R(n) = CurrentName(c, n[1])
  BY DEF Reversion
<1> HIDE DEF R
<1>12. ASSUME NEW n \in WrittenNames(s), NEW m \in WrittenNames(s), R(n) = R(m)
       PROVE  n = m
  <2>1. n[1] = m[1] /\ n[2] + versions[n[1]] + 1 = m[2] + versions[m[1]] + 1
    BY <1>7, <1>12
  <2>2. versions[n[1]] \in Nat /\ n[2] \in Nat /\ m[2] \in Nat
    BY <1>7, <1>9, <1>10
  <2>3. n[2] = m[2]
    BY <2>1, <2>2
  <2> QED BY <1>9, <1>10, <2>1, <2>3
<1>13. ASSUME NEW n \in WrittenNames(s)
       PROVE  R(n) \notin DOMAIN c.val
  <2> DEFINE k == n[2] + versions[n[1]] + 1
  <2>1. k \in Nat /\ k > versions[n[1]] /\ n[1] \in F /\ R(n) = <<n[1], k, c.cycle>>
    BY <1>7
  <2> HIDE DEF k
  <2> QED BY <2>1, NextNameIsNew
<1>14. \A n \in names : d.val[n] = new[n]
  <2>1. names \cap DOMAIN c.val = {}
    BY <1>13
  <2> HIDE DEF names
  <2> QED BY <1>6, <2>1 DEF Emplace
<1>15. ASSUME NEW i \in DOMAIN s.hard
       PROVE  /\ d.val[R(s.hard[i].name)].term = RTerm(s.hard[i].term)
              /\ d.val[R(s.hard[i].name)].worlds = W[i]
              /\ s.hard[i].name \in WrittenNames(s)
  <2> DEFINE m == R(s.hard[i].name)
             j == ConstraintOf(m)
  <2>1. s.hard[i].name \in WrittenNames(s) /\ m \in names
    BY DEF WrittenNames
  <2>2. j \in DOMAIN s.hard /\ R(s.hard[j].name) = R(s.hard[i].name)
    OBVIOUS
  <2>3. s.hard[j].name \in WrittenNames(s)
    BY <2>2 DEF WrittenNames
  <2> HIDE DEF j, m
  <2>4. s.hard[j].name = s.hard[i].name
    BY <1>12, <2>1, <2>2, <2>3
  <2>5. j = i
    BY <1>3, <2>2, <2>4 DEF WrittenInOrder
  <2>6. d.val[m].term = RTerm(s.hard[j].term) /\ d.val[m].worlds = HardOf(s, W)[s.hard[j].name]
    <3> HIDE DEF RTerm, names, ConstraintOf
    <3> QED BY <1>5, <1>14, <2>1 DEF j
  <2>7. HardOf(s, W)[s.hard[i].name] = W[i]
    BY <1>3, HardAt
  <2> HIDE DEF RTerm
  <2> QED BY <2>1, <2>5, <2>6, <2>7 DEF m
<1> HIDE DEF ConstraintOf
<1>16. ASSUME NEW n \in SummaryNames(s)
       PROVE  d.val[R(n)].worlds = ValueIn(s, read, W, n)
  <2>1. CASE n \in WrittenNames(s)
    <3>1. PICK i \in DOMAIN s.hard : s.hard[i].name = n
      BY <2>1 DEF WrittenNames
    <3>2. d.val[R(n)].worlds = W[i]
      <4> HIDE DEF RTerm
      <4> QED BY <1>15, <3>1
    <3>3. HardOf(s, W)[n] = W[i]
      BY <1>3, <3>1, HardAt
    <3> QED BY <2>1, <3>2, <3>3 DEF ValueIn
  <2>2. CASE n \notin WrittenNames(s)
    <3>1. R(n) = CurrentName(c, n[1])
      BY <1>11, <2>2
    <3>2. R(n) \in DOMAIN c.val
      BY <1>8, <1>9, <3>1 DEF StoreIsClosed
    <3>3. d.val[R(n)] = c.val[R(n)]
      BY <1>7, <3>2
    <3>4. read[n] = c.val[R(n)].worlds
      BY <1>0 DEF ReadInContext, R
    <3> QED BY <2>2, <3>3, <3>4 DEF ValueIn
  <2> QED BY <2>1, <2>2
<1>17. ASSUME NEW t \in SummaryTerms(s)
       PROVE  /\ WorldsOf(p, d.val, RTerm(t)) =
                   Meaning(Worlds(p), t.op, [k \in DOMAIN t.args |-> ValueIn(s, read, W, t.args[k])])
              /\ RTerm(t).op # "ite"
  <2> DEFINE a == [j \in DOMAIN t.args |-> R(t.args[j])]
  <2>1. RTerm(t) = [t EXCEPT !.args = a]
    OBVIOUS
  <2>2. IsTerm(t)
    BY DEF SummaryTerms, ReferencesResolve
  <2> HIDE DEF a, RTerm
  <2>3. RTerm(t).op = t.op /\ RTerm(t).args = a
    BY <2>1, <2>2, ArgumentsReplaced
  <2>4. \A k \in DOMAIN t.args : t.args[k] \in SummaryNames(s)
    BY DEF SummaryNames, ArgumentsOf
  <2>5. [k \in DOMAIN a |-> d.val[a[k]].worlds]
          = [k \in DOMAIN t.args |-> ValueIn(s, read, W, t.args[k])]
    BY <1>16, <2>4 DEF a
  <2>6. WorldsOf(p, d.val, RTerm(t)) = Meaning(Worlds(p), t.op, [k \in DOMAIN a |-> d.val[a[k]].worlds])
    BY <2>3, Zenon DEF WorldsOf
  <2>7. t.op # "ite"
    BY <1>3 DEF IsExpression
  <2> QED BY <2>3, <2>5, <2>6, <2>7
<1> HIDE DEF RTerm
<1>18. StoreMeans(p, d)
  <2>1. ASSUME NEW m \in DOMAIN d.val \ DOMAIN c.val
        PROVE  /\ d.val[m].worlds = ValueOf(p, d.val, d.val[m].term)
               /\ d.val[m].term.op # "ite"
    <3>1. PICK n \in WrittenNames(s) : m = R(n)
      BY <1>7, <2>1
    <3>2. PICK i \in DOMAIN s.hard : s.hard[i].name = n
      BY <3>1 DEF WrittenNames
    <3>t. PICK t : t = s.hard[i].term
      OBVIOUS
    <3>3. d.val[m].term = RTerm(t) /\ d.val[m].worlds = W[i]
      <4> HIDE DEF RTerm
      <4> QED BY <1>15, <3>1, <3>2, <3>t
    <3>4. W[i] = TermValue(Worlds(p), s, read, W, t)
      <4>1. Solves(Worlds(p), s, read, W)
        BY <1>4
      <4>2. WrittenInOrder(s)
        BY <1>3
      <4> HIDE DEF R, RTerm, F, names, assumptions
      <4>3. i \in DOMAIN s.hard
        BY <3>2
      <4>4. W[i] = TermValue(Worlds(p), s, read, W, s.hard[i].term)
        <5>1. SolvedTerms(Worlds(p), s, read, W)
          BY <4>1, <4>2, TermsAreSolved
        <5> QED BY <4>3, <5>1 DEF SolvedTerms
      <4> QED BY <4>4, <3>t
    <3>5. t \in SummaryTerms(s)
      BY <3>2, <3>t DEF SummaryTerms
    <3>6. WorldsOf(p, d.val, RTerm(t)) = W[i] /\ RTerm(t).op # "ite"
      BY <1>17, <3>4, <3>5 DEF TermValue
    <3> QED BY <3>3, <3>6 DEF ValueOf
  <2> QED BY <1>7, <1>8, <2>1, StoreGrows
<1>19. ASSUME NEW w \in Worlds(p), NEW i \in DOMAIN s.assumptions
       PROVE  w \in Literal(p, d.val, <<RTerm(s.assumptions[i][1]), s.assumptions[i][2]>>) <=>
                (w \in Meaning(Worlds(p), s.assumptions[i][1].op,
                         [k \in DOMAIN s.assumptions[i][1].args |->
                            ValueIn(s, read, W, s.assumptions[i][1].args[k])]))
                  = s.assumptions[i][2]
  <2> DEFINE t == s.assumptions[i][1]
             sign == s.assumptions[i][2]
             M == Meaning(Worlds(p), t.op, [k \in DOMAIN t.args |-> ValueIn(s, read, W, t.args[k])])
  <2>1. t \in SummaryTerms(s) /\ sign \in BOOLEAN
    BY DEF SummaryTerms, IsOwn
  <2>2. WorldsOf(p, d.val, RTerm(t)) = M
    <3> HIDE DEF t
    <3> QED BY <1>17, <2>1
  <2> HIDE DEF M
  <2>3. w \in Literal(p, d.val, <<RTerm(t), sign>>) <=> IF sign THEN w \in M ELSE w \notin M
    <3> HIDE DEF t, sign
    <3> QED BY <2>2 DEF Literal
  <2>4. w \in Literal(p, d.val, <<RTerm(t), sign>>) <=> (w \in M) = sign
    <3> HIDE DEF t, sign
    <3>1. (w \in M) = sign <=> (w \in M <=> sign)
      BY <2>1
    <3> QED BY <2>1, <2>3, <3>1
  <2> QED BY <2>4 DEF M, t, sign
<1>20. ASSUME NEW w \in Worlds(p)
       PROVE  (\A lit \in assumptions : w \in Literal(p, d.val, lit)) <=>
                AppliesAt(Worlds(p), s, read, W, w)
  <2>1. (\A lit \in assumptions : w \in Literal(p, d.val, lit)) <=>
          \A i \in DOMAIN s.assumptions :
            w \in Literal(p, d.val, <<RTerm(s.assumptions[i][1]), s.assumptions[i][2]>>)
    OBVIOUS
  <2> HIDE DEF assumptions
  <2> QED BY <1>19, <2>1, Zenon DEF AppliesAt
<1>21. PICK V : /\ Solves(Environments(h), s, ReadAtEntry(h, s), V)
                /\ Effect(h, s).applies =
                     {env \in Environments(h) :
                        AppliesAt(Environments(h), s, ReadAtEntry(h, s), V, env)}
                /\ Effect(h, s).final =
                     [x \in WrittenVariables(s) |-> HardOf(s, V)[<<x, HighestVersion(s, x)>>]]
  BY <1>3, EffectSolved
<1>22. ASSUME NEW w \in Worlds(p)
       PROVE  LET env == TrueVariables(p, c, w)
              IN  /\ env \in Environments(h)
                  /\ AppliesAt(Worlds(p), s, read, W, w) <=>
                       AppliesAt(Environments(h), s, ReadAtEntry(h, s), V, env)
                  /\ \A n \in SummaryNames(s) :
                       w \in ValueIn(s, read, W, n) <=>
                         env \in ValueIn(s, ReadAtEntry(h, s), V, n)
  <2> DEFINE env == TrueVariables(p, c, w)
  <2>1. env \in Environments(h)
    BY DEF Environments, TrueVariables
  <2>2. \A n \in SummaryNames(s) \ WrittenNames(s) : w \in read[n] <=> env \in ReadAtEntry(h, s)[n]
    BY <1>0, ReadingsAgree
  <2> HIDE DEF env
  <2>3. AppliesAt(Worlds(p), s, read, W, w) <=>
          AppliesAt(Environments(h), s, ReadAtEntry(h, s), V, env)
    BY <1>3, <1>4, <1>21, <2>1, <2>2, AssumptionsAgree
  <2>4. \A n \in SummaryNames(s) :
          w \in ValueIn(s, read, W, n) <=> env \in ValueIn(s, ReadAtEntry(h, s), V, n)
    BY <1>3, <1>4, <1>21, <2>1, <2>2, SolutionsAgree
  <2> QED BY <2>1, <2>3, <2>4 DEF env
<1>23. ASSUME NEW w \in Worlds(p)
       PROVE  w \in PathWorlds(p, d) <=>
                w \in PathWorlds(p, c) /\ TrueVariables(p, c, w) \in Effect(h, s).applies
  <2>1. w \in PathWorlds(p, d) <=>
          \E cube \in d.pc : \A lit \in cube : w \in Literal(p, d.val, lit)
    BY SatisfyingAt DEF PathWorlds
  <2>2. Satisfying(p, d.val, c.pc) = PathWorlds(p, c)
    BY <1>7, <1>8, PathWorldsKept
  <2>3. w \in PathWorlds(p, c) <=>
          \E cube \in c.pc : \A lit \in cube : w \in Literal(p, d.val, lit)
    BY <2>2, SatisfyingAt
  <2>4. TrueVariables(p, c, w) \in Effect(h, s).applies <=>
          \A lit \in assumptions : w \in Literal(p, d.val, lit)
    <3> HIDE DEF assumptions
    <3> QED BY <1>20, <1>21, <1>22
  <2> HIDE DEF assumptions
  <2>5. ASSUME w \in PathWorlds(p, d)
        PROVE  w \in PathWorlds(p, c) /\ TrueVariables(p, c, w) \in Effect(h, s).applies
    <3>1. PICK cube \in c.pc : \A lit \in cube \cup assumptions : w \in Literal(p, d.val, lit)
      BY <1>6, <2>1, <2>5
    <3> QED BY <2>3, <2>4, <3>1
  <2>6. ASSUME w \in PathWorlds(p, c), TrueVariables(p, c, w) \in Effect(h, s).applies
        PROVE  w \in PathWorlds(p, d)
    <3>1. PICK cube \in c.pc : \A lit \in cube : w \in Literal(p, d.val, lit)
      BY <2>3, <2>6
    <3>2. \A lit \in cube \cup assumptions : w \in Literal(p, d.val, lit)
      BY <2>4, <2>6, <3>1
    <3>3. cube \cup assumptions \in d.pc
      BY <1>6
    <3> QED BY <2>1, <3>2, <3>3
  <2> QED BY <2>5, <2>6
<1>24. /\ \A w \in PathWorlds(p, c) : w \in Worlds(p)
       /\ \A w \in PathWorlds(p, d) : w \in Worlds(p)
  BY SatisfyingAt DEF PathWorlds
<1>25. PathWorlds(p, d) =
         {w \in PathWorlds(p, c) : TrueVariables(p, c, w) \in Effect(h, s).applies}
  BY <1>23, <1>24
<1>26. ASSUME NEW w \in Worlds(p), NEW x \in F
       PROVE  w \in CurrentValue(d, x).worlds <=>
                IF x \in WrittenVariables(s)
                THEN TrueVariables(p, c, w) \in Effect(h, s).final[x]
                ELSE w \in CurrentValue(c, x).worlds
  <2>1. CASE x \in WrittenVariables(s)
    <3> DEFINE k == HighestVersion(s, x)
               n == <<x, k>>
    <3>1. k \in Nat /\ n \in WrittenNames(s)
      BY <2>1, HighestVersionIsHighest
    <3>2. n[1] = x /\ n[2] = k
      OBVIOUS
    <3>3. d.ver[x] = versions[x] + 1 + k /\ versions[x] \in Nat
      BY <1>6, <2>1
    <3>4. Effect(h, s).final[x] = HardOf(s, V)[n]
      BY <1>21, <2>1
    <3> HIDE DEF k, n
    <3>5. R(n) = <<x, k + versions[x] + 1, c.cycle>>
      BY <1>7, <3>1, <3>2
    <3>6. k + versions[x] + 1 = d.ver[x]
      BY <3>1, <3>3
    <3>7. CurrentName(d, x) = R(n)
      BY <1>6, <3>5, <3>6 DEF CurrentName
    <3>8. CurrentValue(d, x).worlds = ValueIn(s, read, W, n)
      BY <1>10, <1>16, <3>1, <3>7 DEF CurrentValue
    <3>9. ValueIn(s, ReadAtEntry(h, s), V, n) = HardOf(s, V)[n]
      BY <3>1 DEF ValueIn
    <3> QED BY <1>10, <1>22, <2>1, <3>1, <3>4, <3>8, <3>9
  <2>2. CASE x \notin WrittenVariables(s)
    <3>1. CurrentName(d, x) = CurrentName(c, x)
      BY <1>6, <2>2 DEF CurrentName
    <3>2. CurrentName(c, x) \in DOMAIN c.val
      BY <1>8 DEF StoreIsClosed
    <3> QED BY <1>7, <2>2, <3>1, <3>2 DEF CurrentValue
  <2> QED BY <2>1, <2>2
<1> QED BY <1>18, <1>25, <1>26

-----------------------------------------------------------------------------
(* Sharing out the worlds.                                                 *)

(* A world stays in one share when the places that gave it up are replaced *)
(* by places of which one has it.                                          *)
HandsOver(W, S, A, old, new, B) ==
  /\ old \subseteq S
  /\ \A a \in S \ old : B[a] = A[a]
  /\ \A w \in W : \A a \in old :
       (\A b \in S : w \in A[b] <=> b = a) => \E b \in new : \A e \in new : w \in B[e] <=> e = b
  /\ \A w \in W : \A b \in new : w \in B[b] => \E a \in old : w \in A[a]

(* Handing over keeps every world in one share.                            *)
LEMMA Reshared ==
  ASSUME NEW W, NEW S, NEW A, SharedOut(W, S, A), NEW old, NEW new, NEW B,
         HandsOver(W, S, A, old, new, B)
  PROVE  SharedOut(W, (S \ old) \cup new, B)
<1> DEFINE T == (S \ old) \cup new
<1> USE DEF HandsOver
<1> SUFFICES ASSUME NEW w \in W
             PROVE  \E a \in T : \A b \in T : w \in B[b] <=> b = a
  BY DEF SharedOut
<1>1. PICK a \in S : \A b \in S : w \in A[b] <=> b = a
  BY DEF SharedOut
<1>2. CASE a \in old
  <2>1. PICK b \in new : \A e \in new : w \in B[e] <=> e = b
    BY <1>1, <1>2
  <2>2. \A e \in S \ old : w \notin B[e]
    BY <1>1, <1>2
  <2>3. b \in T /\ \A e \in T : w \in B[e] <=> e = b
    BY <2>1, <2>2
  <2> QED BY <2>3
<1>3. CASE a \notin old
  <2>1. \A e \in new : w \notin B[e]
    BY <1>1, <1>3
  <2>2. a \in T /\ \A e \in T : w \in B[e] <=> e = a
    BY <1>1, <1>3, <2>1
  <2> QED BY <2>2
<1> QED BY <1>2, <1>3

-----------------------------------------------------------------------------
(* The places of the contexts.                                             *)

(* The five kinds of places.                                               *)
LEMMA PlaceForms ==
  \A a : a \in Places <=>
    \/ \E c \in explorer : a = <<"explorer", c, 0>>
    \/ \E c \in succeeding : a = <<"succeeding", c, 0>>
    \/ \E m \in DOMAIN merger : \E i \in DOMAIN merger[m] : a = <<"merger", m, i>>
    \/ \E i \in DOMAIN held : a = <<"held", 0, i>>
    \/ \E i \in DOMAIN pending : a = <<"pending", 0, i>>
<1>1. ASSUME NEW a
      PROVE  a \in UNION {{"merger"} \X {m} \X DOMAIN merger[m] : m \in DOMAIN merger} <=>
               \E m \in DOMAIN merger : \E i \in DOMAIN merger[m] : a = <<"merger", m, i>>
  OBVIOUS
<1>2. ASSUME NEW a
      PROVE  /\ a \in {"explorer"} \X explorer \X {0} <=> \E c \in explorer : a = <<"explorer", c, 0>>
             /\ a \in {"succeeding"} \X succeeding \X {0} <=>
                  \E c \in succeeding : a = <<"succeeding", c, 0>>
             /\ a \in {"held"} \X {0} \X DOMAIN held <=> \E i \in DOMAIN held : a = <<"held", 0, i>>
             /\ a \in {"pending"} \X {0} \X DOMAIN pending <=>
                  \E i \in DOMAIN pending : a = <<"pending", 0, i>>
  OBVIOUS
<1> DEFINE M == UNION {{"merger"} \X {m} \X DOMAIN merger[m] : m \in DOMAIN merger}
           E == {"explorer"} \X explorer \X {0}
           S == {"succeeding"} \X succeeding \X {0}
           H == {"held"} \X {0} \X DOMAIN held
           D == {"pending"} \X {0} \X DOMAIN pending
<1>3. Places = E \cup S \cup M \cup H \cup D
  BY Zenon DEF Places
<1> HIDE DEF M, E, S, H, D
<1>4. \A a : a \in Places <=> a \in E \/ a \in S \/ a \in M \/ a \in H \/ a \in D
  BY <1>3
<1>5. ASSUME NEW a
      PROVE  a \in M <=> \E m \in DOMAIN merger : \E i \in DOMAIN merger[m] : a = <<"merger", m, i>>
  BY <1>1 DEF M
<1>6. ASSUME NEW a
      PROVE  /\ a \in E <=> \E c \in explorer : a = <<"explorer", c, 0>>
             /\ a \in S <=> \E c \in succeeding : a = <<"succeeding", c, 0>>
             /\ a \in H <=> \E i \in DOMAIN held : a = <<"held", 0, i>>
             /\ a \in D <=> \E i \in DOMAIN pending : a = <<"pending", 0, i>>
  BY <1>2 DEF E, S, H, D
<1> QED BY <1>4, <1>5, <1>6, Zenon

(* The contexts that lie there.                                            *)
LEMMA ContextForms ==
  /\ \A c : ContextAt(<<"explorer", c, 0>>) = c /\ ContextAt(<<"succeeding", c, 0>>) = c
  /\ \A m, i : ContextAt(<<"merger", m, i>>) = merger[m][i]
  /\ \A i : ContextAt(<<"held", 0, i>>) = held[i] /\ ContextAt(<<"pending", 0, i>>) = pending[i]
BY DEF ContextAt

(* The contexts of the engine are those at its places.                     *)
LEMMA LiveAtPlaces == Live = {ContextAt(a) : a \in Places}
<1>1. ASSUME NEW c \in Live
      PROVE  \E a \in Places : ContextAt(a) = c
  <2>1. CASE c \in explorer
    BY <2>1, PlaceForms, ContextForms
  <2>2. CASE c \in succeeding
    BY <2>2, PlaceForms, ContextForms
  <2>3. CASE c \in InMerger
    <3>1. PICK m \in DOMAIN merger : \E i \in DOMAIN merger[m] : c = merger[m][i]
      BY <2>3 DEF InMerger, RangeOf
    <3>2. PICK i \in DOMAIN merger[m] : c = merger[m][i]
      BY <3>1
    <3>3. <<"merger", m, i>> \in Places /\ ContextAt(<<"merger", m, i>>) = c
      BY <3>1, <3>2, PlaceForms, ContextForms
    <3> QED BY <3>3
  <2>4. CASE c \in RangeOf(held)
    <3>1. PICK i \in DOMAIN held : c = held[i]
      BY <2>4 DEF RangeOf
    <3>2. <<"held", 0, i>> \in Places /\ ContextAt(<<"held", 0, i>>) = c
      BY <3>1, PlaceForms, ContextForms
    <3> QED BY <3>2
  <2>5. CASE c \in RangeOf(pending)
    <3>1. PICK i \in DOMAIN pending : c = pending[i]
      BY <2>5 DEF RangeOf
    <3>2. <<"pending", 0, i>> \in Places /\ ContextAt(<<"pending", 0, i>>) = c
      BY <3>1, PlaceForms, ContextForms
    <3> QED BY <3>2
  <2> QED BY <2>1, <2>2, <2>3, <2>4, <2>5 DEF Live
<1>2. ASSUME NEW a \in Places
      PROVE  ContextAt(a) \in Live
  <2>1. CASE \E c \in explorer : a = <<"explorer", c, 0>>
    BY <2>1, ContextForms DEF Live
  <2>2. CASE \E c \in succeeding : a = <<"succeeding", c, 0>>
    BY <2>2, ContextForms DEF Live
  <2>3. CASE \E m \in DOMAIN merger : \E i \in DOMAIN merger[m] : a = <<"merger", m, i>>
    BY <2>3, ContextForms DEF Live, InMerger, RangeOf
  <2>4. CASE \E i \in DOMAIN held : a = <<"held", 0, i>>
    BY <2>4, ContextForms DEF Live, RangeOf
  <2>5. CASE \E i \in DOMAIN pending : a = <<"pending", 0, i>>
    BY <2>5, ContextForms DEF Live, RangeOf
  <2> QED BY <2>1, <2>2, <2>3, <2>4, <2>5, PlaceForms
<1> QED BY <1>1, <1>2

(* The same after a step.                                                  *)
LEMMA NextPlaces ==
  /\ Live' = {ContextAt(a)' : a \in Places'}
  /\ \A a : a \in Places' <=>
       \/ \E c \in explorer' : a = <<"explorer", c, 0>>
       \/ \E c \in succeeding' : a = <<"succeeding", c, 0>>
       \/ \E m \in DOMAIN merger' : \E i \in DOMAIN (merger'[m]) : a = <<"merger", m, i>>
       \/ \E i \in DOMAIN held' : a = <<"held", 0, i>>
       \/ \E i \in DOMAIN pending' : a = <<"pending", 0, i>>
  /\ \A c : ContextAt(<<"explorer", c, 0>>)' = c /\ ContextAt(<<"succeeding", c, 0>>)' = c
  /\ \A m, i : ContextAt(<<"merger", m, i>>)' = merger'[m][i]
  /\ \A i : ContextAt(<<"held", 0, i>>)' = held'[i] /\ ContextAt(<<"pending", 0, i>>)' = pending'[i]
<1>1. (Live = {ContextAt(a) : a \in Places})'
  BY LiveAtPlaces, PTL
<1>2. (\A a : a \in Places <=>
    \/ \E c \in explorer : a = <<"explorer", c, 0>>
    \/ \E c \in succeeding : a = <<"succeeding", c, 0>>
    \/ \E m \in DOMAIN merger : \E i \in DOMAIN merger[m] : a = <<"merger", m, i>>
    \/ \E i \in DOMAIN held : a = <<"held", 0, i>>
    \/ \E i \in DOMAIN pending : a = <<"pending", 0, i>>)'
  BY PlaceForms, PTL
<1>3. /\ \A c : ContextAt(<<"explorer", c, 0>>)' = c /\ ContextAt(<<"succeeding", c, 0>>)' = c
      /\ \A m, i : ContextAt(<<"merger", m, i>>)' = merger'[m][i]
      /\ \A i : ContextAt(<<"held", 0, i>>)' = held'[i] /\ ContextAt(<<"pending", 0, i>>)' = pending'[i]
  BY DEF ContextAt
<1> QED BY <1>1, <1>2, <1>3

-----------------------------------------------------------------------------
(* Steps.                                                                  *)

(* Outside a call a context stands for itself and answers for its worlds.  *)
LEMMA PlainPlace ==
  ASSUME NEW a, phase # "summarize" \/ a[1] # "held"
  PROVE  StandsFor(a) = ContextAt(a) /\ Share(a) = PathWorlds(P, ContextAt(a))
BY DEF StandsFor, Share

(* The same after a step.                                                  *)
LEMMA NextPlainPlace ==
  ASSUME NEW a, phase' # "summarize" \/ a[1] # "held", prog' = prog
  PROVE  StandsFor(a)' = ContextAt(a)' /\ Share(a)' = PathWorlds(P, ContextAt(a)')
<1>1. P' = P
  BY DEF P
<1> QED BY <1>1 DEF StandsFor, Share

(* Runs are constant: what a context follows depends on the context only.  *)
LEMMA FollowsKept ==
  ASSUME prog' = prog, NEW a, NEW w
  PROVE  Follows(StandsFor(a), w)' <=> Follows(StandsFor(a)', w)
<1>1. P' = P
  BY DEF P
<1> QED BY <1>1 DEF Follows

(* A step that replaces the contexts of some places keeps the invariant    *)
(* when the new ones follow the runs of the old ones.                      *)
LEMMA StepKeeps ==
  ASSUME RunsInv, Inv', Faithful', prog' = prog, phase # "done",
         NEW old \in SUBSET Places, NEW new, Places' = (Places \ old) \cup new,
         \A a \in Places \ old :
           /\ ContextAt(a)' = ContextAt(a)
           /\ a[1] = "held" => phase # "summarize" /\ phase' # "summarize",
         \A a \in new :
           /\ StoreMeans(P, ContextAt(a)')
           /\ \A w \in PathWorlds(P, ContextAt(a)') : Follows(StandsFor(a)', w),
         CallIsHeld',
         \A w \in Worlds(P) : \A a \in old :
           (\A b \in Places : w \in Share(b) <=> b = a) =>
              \E b \in new : \A e \in new : w \in Share(e)' <=> e = b,
         \A w \in Worlds(P) : \A b \in new : w \in Share(b)' => \E a \in old : w \in Share(a)
  PROVE  RunsInv'
<1>1. P' = P
  BY DEF P
<1>2. ASSUME NEW a \in Places \ old
      PROVE  /\ ContextAt(a)' = ContextAt(a)
             /\ StandsFor(a)' = StandsFor(a)
             /\ Share(a)' = Share(a)
             /\ ContextAt(a) \in Live
  <2>1. StandsFor(a) = ContextAt(a) /\ Share(a) = PathWorlds(P, ContextAt(a))
    BY PlainPlace
  <2>2. StandsFor(a)' = ContextAt(a)' /\ Share(a)' = PathWorlds(P, ContextAt(a)')
    BY NextPlainPlace
  <2> QED BY <2>1, <2>2, LiveAtPlaces
<1>3. (\A c \in Live : StoreMeans(P, c))'
  <2> SUFFICES ASSUME NEW c \in Live'
               PROVE  StoreMeans(P, c)
    BY <1>1
  <2>1. PICK a \in Places' : c = ContextAt(a)'
    BY NextPlaces
  <2>2. CASE a \in new
    BY <2>1, <2>2
  <2>3. CASE a \in Places \ old
    BY <1>2, <2>1, <2>3 DEF RunsInv
  <2> QED BY <2>1, <2>2, <2>3
<1>4. ContextsFollowRuns'
  <2> SUFFICES ASSUME NEW a \in Places', NEW w \in PathWorlds(P, ContextAt(a)')
               PROVE  Follows(StandsFor(a)', w)
    BY <1>1, FollowsKept DEF ContextsFollowRuns
  <2>1. CASE a \in new
    BY <2>1
  <2>2. CASE a \in Places \ old
    <3>1. w \in PathWorlds(P, ContextAt(a))
      BY <1>2, <2>2
    <3>2. Follows(StandsFor(a), w)
      BY <2>2, <3>1 DEF RunsInv, ContextsFollowRuns
    <3> QED BY <1>2, <2>2, <3>2
  <2> QED BY <2>1, <2>2
<1>5. WorldsAreSharedOut'
  <2> DEFINE S == Places
             T == Places'
             A == [a \in S |-> Share(a)]
             B == [a \in T |-> Share(a)']
  <2>1. SharedOut(Worlds(P), S, A)
    BY DEF RunsInv, WorldsAreSharedOut
  <2>2. \A a \in S : A[a] = Share(a)
    OBVIOUS
  <2>3. \A a \in T : B[a] = Share(a)'
    OBVIOUS
  <2> HIDE DEF A, B
  <2>4. \A a \in S \ old : B[a] = A[a]
    BY <1>2, <2>2, <2>3
  <2>5. \A w \in Worlds(P) : \A a \in old :
          (\A b \in S : w \in A[b] <=> b = a) => \E b \in new : \A e \in new : w \in B[e] <=> e = b
    BY <2>2, <2>3
  <2>6. \A w \in Worlds(P) : \A b \in new : w \in B[b] => \E a \in old : w \in A[a]
    BY <2>2, <2>3
  <2>7. SharedOut(Worlds(P), T, B)
    <3>1. HandsOver(Worlds(P), S, A, old, new, B)
      BY <2>4, <2>5, <2>6 DEF HandsOver
    <3>2. SharedOut(Worlds(P), (S \ old) \cup new, B)
      BY <2>1, <3>1, Reshared
    <3> QED BY <3>2
  <2>8. SharedOut(Worlds(P), Places', [a \in Places' |-> Share(a)'])
    BY <2>7 DEF B
  <2> QED BY <1>1, <2>8 DEF WorldsAreSharedOut
<1> QED BY <1>3, <1>4, <1>5 DEF RunsInv

(* A step between phases in which no summaries are applied.                *)
LEMMA PlainStepKeeps ==
  ASSUME RunsInv, Inv', Faithful', prog' = prog,
         phase # "done", phase # "summarize", phase' # "summarize",
         NEW old \in SUBSET Places, NEW new, Places' = (Places \ old) \cup new,
         \A a \in Places \ old : ContextAt(a)' = ContextAt(a),
         \A a \in new :
           /\ StoreMeans(P, ContextAt(a)')
           /\ \A w \in PathWorlds(P, ContextAt(a)') : Follows(ContextAt(a)', w),
         \A w \in Worlds(P) : \A a \in old :
           (\A b \in Places : w \in PathWorlds(P, ContextAt(b)) <=> b = a) =>
              \E b \in new : \A e \in new : w \in PathWorlds(P, ContextAt(e)') <=> e = b,
         \A w \in Worlds(P) : \A b \in new :
           w \in PathWorlds(P, ContextAt(b)') => \E a \in old : w \in PathWorlds(P, ContextAt(a))
  PROVE  RunsInv'
<1>1. ASSUME NEW a
      PROVE  /\ Share(a) = PathWorlds(P, ContextAt(a))
             /\ StandsFor(a)' = ContextAt(a)' /\ Share(a)' = PathWorlds(P, ContextAt(a)')
  BY PlainPlace, NextPlainPlace
<1>2. CallIsHeld'
  BY DEF CallIsHeld
<1>3. \A a \in new :
        /\ StoreMeans(P, ContextAt(a)')
        /\ \A w \in PathWorlds(P, ContextAt(a)') : Follows(StandsFor(a)', w)
  BY <1>1
<1>4. \A w \in Worlds(P) : \A a \in old :
        (\A b \in Places : w \in Share(b) <=> b = a) =>
           \E b \in new : \A e \in new : w \in Share(e)' <=> e = b
  BY <1>1
<1>5. \A w \in Worlds(P) : \A b \in new : w \in Share(b)' => \E a \in old : w \in Share(a)
  BY <1>1
<1> QED BY <1>2, <1>3, <1>4, <1>5, StepKeeps

(* Contexts change places, that of place a to f[a].                        *)
Relocates(old, new, f) ==
  /\ old \subseteq Places
  /\ Places' = (Places \ old) \cup new
  /\ \A a \in Places \ old : ContextAt(a)' = ContextAt(a)
  /\ f \in [old -> new]
  /\ \A b \in new : \E a \in old : f[a] = b
  /\ \A a \in old : ContextAt(f[a])' = ContextAt(a)

(* Moving contexts keeps the invariant.                                    *)
LEMMA MoveKeeps ==
  ASSUME RunsInv, Inv', Faithful', prog' = prog,
         phase # "done", phase # "summarize", phase' # "summarize",
         NEW old, NEW new, NEW f, Relocates(old, new, f)
  PROVE  RunsInv'
<1>0. /\ old \in SUBSET Places
      /\ Places' = (Places \ old) \cup new
      /\ \A a \in Places \ old : ContextAt(a)' = ContextAt(a)
      /\ f \in [old -> new]
      /\ \A b \in new : \E a \in old : f[a] = b
      /\ \A a \in old : ContextAt(f[a])' = ContextAt(a)
  BY DEF Relocates
<1>1. \A a \in old : StandsFor(a) = ContextAt(a)
  BY PlainPlace
<1>2. ASSUME NEW b \in new
      PROVE  /\ StoreMeans(P, ContextAt(b)')
             /\ \A w \in PathWorlds(P, ContextAt(b)') : Follows(ContextAt(b)', w)
  <2>1. PICK a \in old : f[a] = b
    BY <1>0
  <2>2. ContextAt(b)' = ContextAt(a) /\ a \in Places
    BY <1>0, <2>1
  <2>3. StoreMeans(P, ContextAt(a))
    BY <2>2, LiveAtPlaces DEF RunsInv
  <2>4. \A w \in PathWorlds(P, ContextAt(a)) : Follows(ContextAt(a), w)
    BY <1>1, <2>1, <2>2 DEF RunsInv, ContextsFollowRuns
  <2> QED BY <2>2, <2>3, <2>4
<1>3. ASSUME NEW w \in Worlds(P), NEW b \in new, w \in PathWorlds(P, ContextAt(b)')
      PROVE  \E a \in old : f[a] = b /\ w \in PathWorlds(P, ContextAt(a))
  BY <1>0, <1>3
<1>4. ASSUME NEW w \in Worlds(P), NEW a \in old,
             \A b \in Places : w \in PathWorlds(P, ContextAt(b)) <=> b = a
      PROVE  \E b \in new : \A e \in new : w \in PathWorlds(P, ContextAt(e)') <=> e = b
  <2>1. f[a] \in new /\ w \in PathWorlds(P, ContextAt(f[a])')
    BY <1>0, <1>4
  <2>2. ASSUME NEW e \in new, w \in PathWorlds(P, ContextAt(e)')
        PROVE  e = f[a]
    BY <1>0, <1>3, <1>4, <2>2
  <2> QED BY <2>1, <2>2
<1>5. \A w \in Worlds(P) : \A b \in new :
        w \in PathWorlds(P, ContextAt(b)') => \E a \in old : w \in PathWorlds(P, ContextAt(a))
  BY <1>3
<1> QED BY <1>0, <1>2, <1>4, <1>5, PlainStepKeeps

(* The executor turns a context into others that share out its worlds.     *)
LEMMA ReturnKeeps ==
  ASSUME RunsInv, Inv', Faithful', NEW c \in explorer, Pop(c), NEW contexts, Return(contexts),
         \A i \in DOMAIN contexts :
           /\ StoreMeans(P, contexts[i])
           /\ \A w \in PathWorlds(P, contexts[i]) :
                w \in PathWorlds(P, c) /\ Follows(contexts[i], w),
         \A w \in PathWorlds(P, c) : \E i \in DOMAIN contexts :
           \A j \in DOMAIN contexts : w \in PathWorlds(P, contexts[j]) <=> j = i
  PROVE  RunsInv'
<1> DEFINE old == {<<"explorer", c, 0>>}
           new == {<<"pending", 0, i>> : i \in DOMAIN contexts}
<1>1. /\ prog' = prog /\ phase = "step" /\ phase' = "dispatch"
      /\ explorer' = explorer \ {c} /\ merger' = merger /\ succeeding' = succeeding
      /\ held' = held /\ pending = <<>> /\ pending' = contexts
  <2>1. ControlInv
    BY DEF RunsInv, Inv
  <2>2. pending = <<>>
    BY <2>1, PopOK
  <2> QED BY <2>2 DEF Pop, Return
<1>2. old \in SUBSET Places
  BY PlaceForms
<1>3. Places' = (Places \ old) \cup new
  <2>1. DOMAIN pending = {}
    BY <1>1
  <2>2. ASSUME NEW a
        PROVE  a \in Places' <=> a \in (Places \ old) \/ a \in new
    <3>1. a \in new <=> \E i \in DOMAIN pending' : a = <<"pending", 0, i>>
      BY <1>1
    <3>2. (\E d \in explorer' : a = <<"explorer", d, 0>>) <=>
            (\E d \in explorer : a = <<"explorer", d, 0>>) /\ a \notin old
      BY <1>1
    <3>3. a \in Places' <=>
            \/ \E d \in explorer' : a = <<"explorer", d, 0>>
            \/ \E d \in succeeding : a = <<"succeeding", d, 0>>
            \/ \E m \in DOMAIN merger : \E i \in DOMAIN merger[m] : a = <<"merger", m, i>>
            \/ \E i \in DOMAIN held : a = <<"held", 0, i>>
            \/ \E i \in DOMAIN pending' : a = <<"pending", 0, i>>
      BY <1>1, NextPlaces
    <3>4. a \in Places <=>
            \/ \E d \in explorer : a = <<"explorer", d, 0>>
            \/ \E d \in succeeding : a = <<"succeeding", d, 0>>
            \/ \E m \in DOMAIN merger : \E i \in DOMAIN merger[m] : a = <<"merger", m, i>>
            \/ \E i \in DOMAIN held : a = <<"held", 0, i>>
      BY <2>1, PlaceForms
    <3>5. a \in old => a = <<"explorer", c, 0>>
      OBVIOUS
    <3> HIDE DEF old, new
    <3> QED BY <3>1, <3>2, <3>3, <3>4, <3>5
  <2> HIDE DEF old, new
  <2> QED BY <2>2
<1>4. ASSUME NEW a \in Places \ old
      PROVE  ContextAt(a)' = ContextAt(a)
  <2>1. a \in Places
    BY <1>4
  <2>2. CASE \E d \in explorer : a = <<"explorer", d, 0>>
    BY <2>2, ContextForms, NextPlaces
  <2>3. CASE \E d \in succeeding : a = <<"succeeding", d, 0>>
    BY <2>3, ContextForms, NextPlaces
  <2>4. CASE \E m \in DOMAIN merger : \E i \in DOMAIN merger[m] : a = <<"merger", m, i>>
    BY <1>1, <2>4, ContextForms, NextPlaces
  <2>5. CASE \E i \in DOMAIN held : a = <<"held", 0, i>>
    BY <1>1, <2>5, ContextForms, NextPlaces
  <2>6. DOMAIN pending = {}
    BY <1>1
  <2> QED BY <2>1, <2>2, <2>3, <2>4, <2>5, <2>6, PlaceForms
<1>5. \A i \in DOMAIN contexts : ContextAt(<<"pending", 0, i>>)' = contexts[i]
  BY <1>1, NextPlaces
<1>6. ContextAt(<<"explorer", c, 0>>) = c
  BY ContextForms
<1>7. \A a \in new :
        /\ StoreMeans(P, ContextAt(a)')
        /\ \A w \in PathWorlds(P, ContextAt(a)') : Follows(ContextAt(a)', w)
  BY <1>5
<1>8. ASSUME NEW w \in Worlds(P), NEW a \in old,
             \A b \in Places : w \in PathWorlds(P, ContextAt(b)) <=> b = a
      PROVE  \E b \in new : \A e \in new : w \in PathWorlds(P, ContextAt(e)') <=> e = b
  <2>1. w \in PathWorlds(P, c)
    BY <1>2, <1>6, <1>8
  <2>2. PICK i \in DOMAIN contexts :
          \A j \in DOMAIN contexts : w \in PathWorlds(P, contexts[j]) <=> j = i
    BY <2>1
  <2>3. <<"pending", 0, i>> \in new
    OBVIOUS
  <2>4. ASSUME NEW e \in new
        PROVE  w \in PathWorlds(P, ContextAt(e)') <=> e = <<"pending", 0, i>>
    <3>1. PICK j \in DOMAIN contexts : e = <<"pending", 0, j>>
      OBVIOUS
    <3> QED BY <1>5, <2>2, <3>1
  <2> QED BY <2>3, <2>4
<1>9. ASSUME NEW w \in Worlds(P), NEW b \in new, w \in PathWorlds(P, ContextAt(b)')
      PROVE  \E a \in old : w \in PathWorlds(P, ContextAt(a))
  <2>1. w \in PathWorlds(P, c)
    BY <1>5, <1>9
  <2> QED BY <1>6, <2>1
<1> HIDE DEF old, new
<1> QED BY <1>1, <1>2, <1>3, <1>4, <1>7, <1>8, <1>9, PlainStepKeeps

(* The shape of a configuration.                                           *)
IsConfiguration(k) ==
  /\ k = [cycle |-> k.cycle, label |-> k.label, stack |-> k.stack, env |-> k.env, taken |-> k.taken]
  /\ k.env \in [FlattenedInterface(P) -> BOOLEAN]

(* The context d has the position and the values of k in w.                *)
Matches(d, w, k) ==
  /\ k.cycle = d.cycle /\ k.label = d.label /\ k.stack = d.stack
  /\ \A x \in FlattenedInterface(P) : k.env[x] <=> w \in CurrentValue(d, x).worlds

(* The run of w passes through k.                                          *)
OnTrace(w, k) == Position(k) \in DOMAIN Trace[prog][w] /\ Trace[prog][w][Position(k)] = k

(* A context follows a run that passes through a configuration it matches. *)
LEMMA FollowsIff ==
  ASSUME NEW d, NEW w
  PROVE  Follows(d, w) <=> \E k : OnTrace(w, k) /\ IsConfiguration(k) /\ Matches(d, w, k)
<1>1. ASSUME Follows(d, w)
      PROVE  \E k : OnTrace(w, k) /\ IsConfiguration(k) /\ Matches(d, w, k)
  <2> DEFINE k == Trace[prog][w][Position(d)]
  <2>1. /\ Position(d) \in DOMAIN Trace[prog][w]
        /\ k = [cycle |-> d.cycle, label |-> d.label, stack |-> d.stack,
                env |-> k.env, taken |-> k.taken]
        /\ k.env \in [FlattenedInterface(P) -> BOOLEAN]
        /\ \A x \in FlattenedInterface(P) : k.env[x] <=> w \in CurrentValue(d, x).worlds
    BY <1>1 DEF Follows
  <2>2. k = Trace[prog][w][Position(d)]
    OBVIOUS
  <2> HIDE DEF k
  <2>3. k.cycle = d.cycle /\ k.label = d.label /\ k.stack = d.stack
    BY <2>1
  <2>4. Position(k) = Position(d)
    BY <2>3 DEF Position
  <2>5. OnTrace(w, k) /\ IsConfiguration(k) /\ Matches(d, w, k)
    BY <2>1, <2>2, <2>3, <2>4 DEF OnTrace, IsConfiguration, Matches
  <2> QED BY <2>5
<1>2. ASSUME NEW k, OnTrace(w, k), IsConfiguration(k), Matches(d, w, k)
      PROVE  Follows(d, w)
  <2>1. Position(k) = Position(d)
    BY <1>2 DEF Position, Matches
  <2>2. Trace[prog][w][Position(d)] = k /\ Position(d) \in DOMAIN Trace[prog][w]
    BY <1>2, <2>1 DEF OnTrace
  <2>3. k = [cycle |-> d.cycle, label |-> d.label, stack |-> d.stack, env |-> k.env, taken |-> k.taken]
    BY <1>2 DEF Matches, IsConfiguration
  <2> QED BY <1>2, <2>2, <2>3 DEF Follows, Matches, IsConfiguration
<1> QED BY <1>1, <1>2

-----------------------------------------------------------------------------
(* The start.                                                              *)

(* The first context stands for all runs at their start.                   *)
LEMMA InitRuns ==
  ASSUME Init, Faithful
  PROVE  RunsInv
<1> DEFINE c == InitialContext(P)
<1>1. Inv
  BY InitOK, InitStores DEF Inv
<1>2. /\ prog \in Programs /\ phase = "run" /\ explorer = {c} /\ succeeding = {}
      /\ merger = [m \in MergePoints(P) |-> <<>>] /\ held = <<>> /\ pending = <<>>
  BY DEF Init
<1>3. \A x \in FlattenedInterface(P) : InitialValue(P, x) \in BOOLEAN
  BY <1>2, ExpressionsAssumption DEF P
<1>4. /\ StoreMeans(P, c) /\ PathWorlds(P, c) = Worlds(P)
      /\ \A x \in FlattenedInterface(P) : \A w \in Worlds(P) :
           w \in CurrentValue(c, x).worlds <=>
             IF x \in WholeProgramInputs(P) THEN <<0, x>> \in w ELSE InitialValue(P, x)
  <2>1. c = InitialContext(P)
    OBVIOUS
  <2> HIDE DEF c
  <2> QED BY <1>3, <2>1, InitialMeans
<1>5. /\ c.cycle = 0 /\ c.label = MainCfg(P).entry
      /\ c.stack = <<[scope |-> MainScope(P), ret |-> MainCfg(P).entry]>>
  BY DEF InitialContext
<1> HIDE DEF c
<1>6. ASSUME NEW w \in Worlds(P)
      PROVE  Follows(c, w)
  <2> DEFINE k == InitialConfiguration(P, w)
  <2>1. OnTrace(w, k)
    <3>1. k = InitialConfiguration(Code[prog], w) /\ w \in Worlds(Code[prog])
      BY DEF P
    <3> HIDE DEF k
    <3> QED BY <1>2, <3>1, TraceStart DEF OnTrace
  <2> DEFINE env == [x \in FlattenedInterface(P) |->
                       IF x \in WholeProgramInputs(P) THEN <<0, x>> \in w ELSE InitialValue(P, x)]
  <2>2. k = [cycle |-> 0, label |-> MainCfg(P).entry,
             stack |-> <<[scope |-> MainScope(P), ret |-> MainCfg(P).entry]>>,
             env |-> env, taken |-> {}]
    BY DEF InitialConfiguration
  <2>3. env \in [FlattenedInterface(P) -> BOOLEAN]
    <3>1. ASSUME NEW x \in FlattenedInterface(P)
          PROVE  env[x] \in BOOLEAN
      <4>1. CASE x \in WholeProgramInputs(P)
        <5>1. env[x] = (<<0, x>> \in w)
          BY <4>1
        <5> HIDE DEF env
        <5> QED BY <5>1
      <4>2. CASE x \notin WholeProgramInputs(P)
        BY <1>3, <4>2
      <4> QED BY <4>1, <4>2
    <3>2. env = [x \in FlattenedInterface(P) |-> env[x]]
      OBVIOUS
    <3> HIDE DEF env
    <3> QED BY <3>1, <3>2
  <2>4. \A x \in FlattenedInterface(P) : env[x] <=> w \in CurrentValue(c, x).worlds
    BY <1>3, <1>4
  <2> HIDE DEF k, env
  <2>5. IsConfiguration(k) /\ Matches(c, w, k)
    BY <1>5, <2>2, <2>3, <2>4 DEF IsConfiguration, Matches
  <2> QED BY <2>1, <2>5, FollowsIff
<1>7. Places = {<<"explorer", c, 0>>}
  <2>1. DOMAIN held = {} /\ DOMAIN pending = {} /\ \A m \in DOMAIN merger : DOMAIN merger[m] = {}
    BY <1>2
  <2>2. \A a : a \in Places <=> a = <<"explorer", c, 0>>
    BY <1>2, <2>1, PlaceForms
  <2> QED BY <2>2
<1>8. ContextAt(<<"explorer", c, 0>>) = c
  BY ContextForms
<1>9. \A d \in Live : StoreMeans(P, d)
  BY <1>4, <1>7, <1>8, LiveAtPlaces
<1>10. \A a : StandsFor(a) = ContextAt(a) /\ Share(a) = PathWorlds(P, ContextAt(a))
  BY <1>2, PlainPlace
<1>11. ContextsFollowRuns
  BY <1>4, <1>6, <1>7, <1>8, <1>10 DEF ContextsFollowRuns
<1>12. CallIsHeld
  BY <1>2 DEF CallIsHeld
<1>13. WorldsAreSharedOut
  <2>1. [place \in Places |-> Share(place)][<<"explorer", c, 0>>] = Worlds(P)
    BY <1>4, <1>7, <1>8, <1>10
  <2> QED BY <1>7, <2>1 DEF WorldsAreSharedOut, SharedOut
<1> QED BY <1>1, <1>9, <1>11, <1>12, <1>13 DEF RunsInv

-----------------------------------------------------------------------------
(* Steps that leave the contexts where they are.                           *)

(* The worlds of c to which one of the summaries in todos applies.         *)
SharesApplied(p, c, todos) ==
  UNION {{w \in PathWorlds(p, c) :
            TrueVariables(p, c, w) \in Effect(CfgOf(p, Scope(c)), SummariesAt(p, c)[k]).applies} :
         k \in todos}

(* They are the share of the context that waits at the call.               *)
LEMMA HeldShare ==
  ASSUME NEW a, phase = "summarize", a[1] = "held"
  PROVE  Share(a) = SharesApplied(P, ContextAt(a), todo)
BY DEF Share, AppliedWorlds, SharesApplied, TrueVariables

(* The same after a step.                                                  *)
LEMMA NextHeldShare ==
  ASSUME NEW a, phase' = "summarize", a[1] = "held"
  PROVE  Share(a)' = SharesApplied(P', ContextAt(a)', todo')
BY DEF Share, AppliedWorlds, SharesApplied, TrueVariables

(* A step that leaves the contexts alone keeps the invariant.              *)
LEMMA StutterRuns ==
  ASSUME RunsInv, Inv', Faithful',
         UNCHANGED <<prog, phase, explorer, merger, succeeding, held, pending, todo>>
  PROVE  RunsInv'
<1>1. P' = P /\ Live' = Live /\ Places' = Places /\ phase' = phase
  BY DEF P, Live, InMerger, Places
<1>2. \A a : ContextAt(a)' = ContextAt(a)
  BY DEF ContextAt
<1>3. \A a : StandsFor(a)' = StandsFor(a)
  BY <1>2 DEF StandsFor
<1>4. \A a : Share(a)' = Share(a)
  <2> SUFFICES ASSUME NEW a
               PROVE  Share(a)' = Share(a)
    OBVIOUS
  <2>1. CASE phase = "summarize" /\ a[1] = "held"
    BY <1>1, <1>2, <2>1, HeldShare, NextHeldShare
  <2>2. CASE phase # "summarize" \/ a[1] # "held"
    BY <1>1, <1>2, <2>2, PlainPlace, NextPlainPlace
  <2> QED BY <2>1, <2>2
<1>5. CallIsHeld'
  BY <1>1 DEF RunsInv, CallIsHeld
<1>6. ContextsFollowRuns'
  BY <1>1, <1>2, <1>3, FollowsKept DEF RunsInv, ContextsFollowRuns
<1>7. WorldsAreSharedOut'
  <2>1. [place \in Places' |-> Share(place)'] = [place \in Places |-> Share(place)]
    BY <1>1, <1>4
  <2> QED BY <1>1, <2>1 DEF RunsInv, WorldsAreSharedOut
<1> QED BY <1>1, <1>5, <1>6, <1>7 DEF RunsInv

(* The loop condition of Engine::run.                                      *)
LEMMA RunLoopRuns ==
  ASSUME RunsInv, Inv', Faithful', RunLoop
  PROVE  RunsInv'
<1>1. /\ prog' = prog /\ phase = "run" /\ phase' \in {"done", "step"} /\ explorer' = explorer
      /\ merger' = merger /\ succeeding' = succeeding /\ held' = held /\ pending' = pending
  BY DEF RunLoop, contextVars
<1>2. Places' = (Places \ {}) \cup {}
  <2>1. Places' = Places
    BY <1>1 DEF Places
  <2> QED BY <2>1
<1>3. \A a : ContextAt(a)' = ContextAt(a)
  BY <1>1 DEF ContextAt
<1> DEFINE none == {}
<1>4. /\ none \in SUBSET Places /\ Places' = (Places \ none) \cup none
      /\ \A a : a \notin none
  BY <1>2
<1> HIDE DEF none
<1>5. \A a \in Places \ none : ContextAt(a)' = ContextAt(a)
  BY <1>3
<1>6. \A a \in none :
        /\ StoreMeans(P, ContextAt(a)')
        /\ \A w \in PathWorlds(P, ContextAt(a)') : Follows(ContextAt(a)', w)
  BY <1>4
<1>7. \A w \in Worlds(P) : \A a \in none :
        (\A b \in Places : w \in PathWorlds(P, ContextAt(b)) <=> b = a) =>
           \E b \in none : \A e \in none : w \in PathWorlds(P, ContextAt(e)') <=> e = b
  BY <1>4
<1>8. \A w \in Worlds(P) : \A b \in none :
        w \in PathWorlds(P, ContextAt(b)') => \E a \in none : w \in PathWorlds(P, ContextAt(a))
  BY <1>4
<1>9. phase # "done" /\ phase # "summarize" /\ phase' # "summarize"
  BY <1>1
<1> QED BY <1>1, <1>4, <1>5, <1>6, <1>7, <1>8, <1>9, PlainStepKeeps

(* The engine stops: there is nothing left to share out.                   *)
LEMMA LocalTerminationRuns ==
  ASSUME RunsInv, Inv', Faithful', LocalTermination
  PROVE  RunsInv'
<1>1. /\ prog' = prog /\ phase = "step" /\ phase' = "done" /\ explorer' \subseteq explorer
      /\ merger' = merger /\ succeeding' = succeeding /\ held' = held /\ pending' = pending
  BY DEF LocalTermination
<1>2. P' = P /\ Live' \subseteq Live /\ Places' \subseteq Places
  BY <1>1 DEF P, Live, InMerger, Places
<1>3. \A a : ContextAt(a)' = ContextAt(a)
  BY <1>1 DEF ContextAt
<1>4. \A a : StandsFor(a)' = ContextAt(a)' /\ StandsFor(a) = ContextAt(a)
  BY <1>1, PlainPlace, NextPlainPlace
<1>5. ContextsFollowRuns'
  <2> SUFFICES ASSUME NEW a \in Places', NEW w \in PathWorlds(P, ContextAt(a)')
               PROVE  Follows(StandsFor(a)', w)
    BY <1>1, <1>2, FollowsKept DEF ContextsFollowRuns
  <2> QED BY <1>2, <1>3, <1>4 DEF RunsInv, ContextsFollowRuns
<1>6. CallIsHeld' /\ WorldsAreSharedOut'
  BY <1>1 DEF CallIsHeld, WorldsAreSharedOut
<1> QED BY <1>2, <1>5, <1>6 DEF RunsInv

-----------------------------------------------------------------------------
(* Contexts that change places.                                            *)

(* The context that has crossed the exit starts the next cycle.            *)
LEMMA EndOfStepRuns ==
  ASSUME RunsInv, Inv', Faithful', EndOfStep
  PROVE  RunsInv'
<1>1. /\ prog' = prog /\ phase = "step" /\ phase' = "run" /\ explorer = {}
      /\ explorer' = succeeding /\ succeeding # {} /\ succeeding' = {}
      /\ merger' = merger /\ held' = held /\ pending' = pending
  BY DEF EndOfStep
<1>2. PICK c \in succeeding : succeeding = {c}
  BY <1>1 DEF RunsInv, Inv, ControlInv, ExitOK
<1> DEFINE there == <<"succeeding", c, 0>>
           here == <<"explorer", c, 0>>
           old == {there}
           new == {here}
           f == [a \in old |-> here]
<1>3. there \in Places /\ here \notin Places
  BY <1>1, <1>2, PlaceForms
<1>4. \A a : a \in Places' <=> (a \in Places /\ a # there) \/ a = here
  BY <1>1, <1>2, PlaceForms, NextPlaces
<1>5. \A a \in Places \ old : ContextAt(a)' = ContextAt(a)
  BY <1>1 DEF ContextAt
<1>6. ContextAt(here)' = ContextAt(there)
  BY ContextForms, NextPlaces
<1> HIDE DEF here, there
<1>7. old \in SUBSET Places /\ Places' = (Places \ old) \cup new
  BY <1>3, <1>4
<1>8. /\ f \in [old -> new]
      /\ \A b \in new : \E a \in old : f[a] = b
      /\ \A a \in old : ContextAt(f[a])' = ContextAt(a)
  BY <1>6
<1>9. phase # "done" /\ phase # "summarize" /\ phase' # "summarize"
  BY <1>1
<1> HIDE DEF old, new, f
<1>20. Relocates(old, new, f)
  BY <1>1, <1>5, <1>7, <1>8, <1>9 DEF Relocates
<1> QED BY <1>20, <1>1, <1>5, <1>7, <1>8, <1>9, MoveKeeps

(* The merged context returns to the explorer.                             *)
LEMMA EndMergeRuns ==
  ASSUME RunsInv, Inv', Faithful', EndMerge
  PROVE  RunsInv'
<1>1. /\ prog' = prog /\ phase = "merge" /\ phase' = "step" /\ Len(held) = 1
      /\ explorer' = {held[1]} /\ held' = <<>>
      /\ merger' = merger /\ succeeding' = succeeding /\ pending' = pending
  BY DEF EndMerge
<1>2. explorer = {} /\ IsSeq(held) /\ held # <<>>
  BY <1>1 DEF RunsInv, Inv, ControlInv, PhasesOK, EngineOK
<1>3. DOMAIN held = {1} /\ DOMAIN held' = {}
  BY <1>1, <1>2, NonemptySeq
<1>c. PICK c : c = held[1]
  OBVIOUS
<1> DEFINE there == <<"held", 0, 1>>
           here == <<"explorer", c, 0>>
           old == {there}
           new == {here}
           f == [a \in old |-> here]
<1>4. there \in Places
  BY <1>3, PlaceForms
<1>5. \A a : a \in Places' <=> (a \in Places /\ a # there) \/ a = here
  BY <1>1, <1>2, <1>3, <1>c, PlaceForms, NextPlaces
<1>6. \A a \in Places \ old : ContextAt(a)' = ContextAt(a)
  <2>1. ASSUME NEW a \in Places, a # there
        PROVE  a[1] \in {"explorer", "succeeding", "merger", "pending"}
    BY <1>3, <2>1, PlaceForms
  <2>2. \A a : a[1] \in {"explorer", "succeeding", "merger", "pending"} =>
                ContextAt(a)' = ContextAt(a)
    BY <1>1 DEF ContextAt
  <2>3. \A a \in Places \ old : a # there
    OBVIOUS
  <2> HIDE DEF old, there
  <2> QED BY <2>1, <2>2, <2>3
<1>7. ContextAt(here)' = ContextAt(there)
  BY <1>c, ContextForms, NextPlaces
<1> HIDE DEF here, there
<1>8. old \in SUBSET Places /\ Places' = (Places \ old) \cup new
  BY <1>4, <1>5
<1>9. /\ f \in [old -> new]
      /\ \A b \in new : \E a \in old : f[a] = b
      /\ \A a \in old : ContextAt(f[a])' = ContextAt(a)
  BY <1>7
<1>10. phase # "done" /\ phase # "summarize" /\ phase' # "summarize"
  BY <1>1
<1> HIDE DEF old, new, f
<1>20. Relocates(old, new, f)
  BY <1>1, <1>6, <1>8, <1>9, <1>10 DEF Relocates
<1> QED BY <1>20, <1>1, <1>6, <1>8, <1>9, <1>10, MoveKeeps

(* The contexts of a merge point are taken out of the merger.              *)
LEMMA BeginMergeRuns ==
  ASSUME RunsInv, Inv', Faithful', BeginMerge
  PROVE  RunsInv'
<1>1. PICK m \in DOMAIN merger :
        held' = merger[m] /\ merger' = [merger EXCEPT ![m] = <<>>]
  BY DEF BeginMerge
<1>2. /\ prog' = prog /\ phase = "step" /\ phase' = "merge" /\ explorer' = explorer
      /\ succeeding' = succeeding /\ pending' = pending
  BY DEF BeginMerge
<1>3. held = <<>>
  BY <1>2 DEF RunsInv, Inv, ControlInv, PhasesOK
<1>4. DOMAIN held = {} /\ DOMAIN held' = DOMAIN merger[m] /\ DOMAIN merger' = DOMAIN merger
      /\ \A k \in DOMAIN merger : DOMAIN (merger'[k]) = IF k = m THEN {} ELSE DOMAIN merger[k]
  BY <1>1, <1>3
<1> DEFINE there(i) == <<"merger", m, i>>
           here(i) == <<"held", 0, i>>
           old == {there(i) : i \in DOMAIN merger[m]}
           new == {here(i) : i \in DOMAIN merger[m]}
<1>5. \A i \in DOMAIN merger[m] : there(i) \in Places
  BY PlaceForms
<1>6. ASSUME NEW a
      PROVE  a \in Places' <=> (a \in Places /\ a \notin old) \/ a \in new
  <2>1. (\E k \in DOMAIN merger' : \E i \in DOMAIN (merger'[k]) : a = <<"merger", k, i>>) <=>
          (\E k \in DOMAIN merger : \E i \in DOMAIN merger[k] : a = <<"merger", k, i>>) /\ a \notin old
    BY <1>4
  <2>2. a \in new <=> \E i \in DOMAIN held' : a = <<"held", 0, i>>
    BY <1>4
  <2>3. a \in old => \E i \in DOMAIN merger[m] : a = <<"merger", m, i>>
    OBVIOUS
  <2>4. a \in Places' <=>
          \/ \E d \in explorer : a = <<"explorer", d, 0>>
          \/ \E d \in succeeding : a = <<"succeeding", d, 0>>
          \/ \E k \in DOMAIN merger' : \E i \in DOMAIN (merger'[k]) : a = <<"merger", k, i>>
          \/ \E i \in DOMAIN held' : a = <<"held", 0, i>>
          \/ \E i \in DOMAIN pending : a = <<"pending", 0, i>>
    BY <1>2, NextPlaces
  <2>5. a \in Places <=>
          \/ \E d \in explorer : a = <<"explorer", d, 0>>
          \/ \E d \in succeeding : a = <<"succeeding", d, 0>>
          \/ \E k \in DOMAIN merger : \E i \in DOMAIN merger[k] : a = <<"merger", k, i>>
          \/ \E i \in DOMAIN pending : a = <<"pending", 0, i>>
    BY <1>4, PlaceForms
  <2> HIDE DEF old, new
  <2> QED BY <2>1, <2>2, <2>3, <2>4, <2>5
<1>7. ASSUME NEW a \in Places \ old
      PROVE  ContextAt(a)' = ContextAt(a)
  <2>1. CASE a[1] = "merger"
    <3>1. PICK k \in DOMAIN merger : \E i \in DOMAIN merger[k] : a = <<"merger", k, i>>
      BY <2>1, PlaceForms
    <3>2. k # m
      BY <3>1
    <3>3. merger'[k] = merger[k]
      BY <1>1, <3>2
    <3> QED BY <3>1, <3>3, ContextForms, NextPlaces
  <2>2. CASE a[1] # "merger"
    <3>1. a[1] # "held"
      BY <1>4, PlaceForms
    <3> QED BY <1>2, <2>2, <3>1 DEF ContextAt
  <2> QED BY <2>1, <2>2
<1>8. \A i \in DOMAIN merger[m] : ContextAt(here(i))' = ContextAt(there(i))
  <2>1. \A i : ContextAt(here(i))' = held'[i]
    BY NextPlaces
  <2>2. \A i : ContextAt(there(i)) = merger[m][i]
    BY ContextForms
  <2> HIDE DEF here, there
  <2> QED BY <1>1, <2>1, <2>2
<1>9. \A i : there(i)[3] = i
  OBVIOUS
<1> HIDE DEF here, there
<1>f. PICK f : f = [a \in old |-> here(a[3])]
  OBVIOUS
<1>10. /\ f \in [old -> new]
       /\ \A b \in new : \E a \in old : f[a] = b
       /\ \A a \in old : ContextAt(f[a])' = ContextAt(a)
  <2>1. \A i \in DOMAIN merger[m] : there(i) \in old /\ here(i) \in new
    OBVIOUS
  <2>2. \A a \in old : \E i \in DOMAIN merger[m] : a = there(i)
    OBVIOUS
  <2>3. \A b \in new : \E i \in DOMAIN merger[m] : b = here(i)
    OBVIOUS
  <2> HIDE DEF old, new
  <2>4. f \in [old -> new]
    BY <1>9, <1>f, <2>1, <2>2
  <2>5. \A i \in DOMAIN merger[m] : f[there(i)] = here(i)
    BY <1>9, <1>f, <2>1
  <2>6. \A b \in new : \E a \in old : f[a] = b
    BY <2>1, <2>3, <2>5
  <2>7. ASSUME NEW a \in old
        PROVE  ContextAt(f[a])' = ContextAt(a)
    <3>1. PICK i \in DOMAIN merger[m] : a = there(i)
      BY <2>2
    <3>2. f[a] = here(i)
      BY <2>5, <3>1
    <3> QED BY <1>8, <3>1, <3>2
  <2> QED BY <2>4, <2>6, <2>7
<1>11. phase # "done" /\ phase # "summarize" /\ phase' # "summarize"
  BY <1>2
<1>12. old \in SUBSET Places
  BY <1>5
<1> HIDE DEF old, new
<1>13. Places' = (Places \ old) \cup new
  BY <1>6
<1>20. Relocates(old, new, f)
  BY <1>2, <1>7, <1>10, <1>11, <1>12, <1>13 DEF Relocates
<1> QED BY <1>20, <1>2, <1>7, <1>10, <1>11, <1>12, <1>13, MoveKeeps

(* The first of the pending contexts goes to place b.                      *)
LEMMA DispatchTo ==
  ASSUME RunsInv, Inv', Faithful', prog' = prog, phase = "dispatch", phase' # "summarize",
         pending # <<>>, pending' = Tail(pending),
         NEW b, b[1] # "pending", ContextAt(b)' = Head(pending),
         \A a : a \in Places' <=> \/ a \in Places /\ a[1] # "pending"
                                  \/ a = b
                                  \/ \E i \in DOMAIN pending' : a = <<"pending", 0, i>>,
         \A a \in Places : a[1] # "pending" => ContextAt(a)' = ContextAt(a)
  PROVE  RunsInv'
<1>1. PICK n : n = Len(pending)
  OBVIOUS
<1>2. /\ n \in Nat \ {0} /\ DOMAIN pending = 1 .. n /\ DOMAIN pending' = 1 .. n - 1
      /\ \A i \in 1 .. n - 1 : pending'[i] = pending[i + 1]
      /\ Head(pending) = pending[1]
  <2>1. pending \in Seq(RangeOf(pending))
    BY DEF RunsInv, Inv, ControlInv, EngineOK, IsSeq
  <2>2. n \in Nat \ {0} /\ DOMAIN pending = 1 .. n /\ Len(pending') = n - 1
        /\ DOMAIN pending' = 1 .. Len(pending')
    BY <1>1, <2>1
  <2> QED BY <1>1, <2>1, <2>2
<1> DEFINE there(i) == <<"pending", 0, i>>
           old == {there(i) : i \in 1 .. n}
           new == {there(i) : i \in 1 .. n - 1} \cup {b}
<1>3. PICK f : f = [a \in old |-> IF a[3] = 1 THEN b ELSE there(a[3] - 1)]
  OBVIOUS
<1>4. \A i : there(i) \in Places <=> i \in 1 .. n
  BY <1>2, PlaceForms
<1>5. \A a \in Places : a[1] = "pending" => \E i \in 1 .. n : a = there(i)
  BY <1>2, PlaceForms
<1>6. \A i : there(i)[3] = i /\ there(i)[1] = "pending"
  OBVIOUS
<1>7. \A i \in 1 .. n - 1 : ContextAt(there(i))' = pending'[i]
  BY NextPlaces
<1>8. \A i \in 1 .. n : ContextAt(there(i)) = pending[i]
  BY ContextForms
<1>9. \A a : (\E i \in DOMAIN pending' : a = <<"pending", 0, i>>) <=> \E i \in 1 .. n - 1 : a = there(i)
  BY <1>2
<1> HIDE DEF there
<1>10. \A a : a \in old <=> \E i \in 1 .. n : a = there(i)
  OBVIOUS
<1>11. \A a : a \in new <=> a = b \/ \E i \in 1 .. n - 1 : a = there(i)
  OBVIOUS
<1> HIDE DEF new
<1>12. \A i \in 1 .. n : f[there(i)] = IF i = 1 THEN b ELSE there(i - 1)
  BY <1>3, <1>6, <1>10
<1>13. f \in [old -> new]
  <2>1. ASSUME NEW a \in old
        PROVE  (IF a[3] = 1 THEN b ELSE there(a[3] - 1)) \in new
    <3>1. PICK i \in 1 .. n : a = there(i)
      BY <1>10
    <3>2. a[3] = i
      BY <1>6, <3>1
    <3>3. i # 1 => i - 1 \in 1 .. n - 1
      BY <1>2
    <3> QED BY <1>11, <3>2, <3>3
  <2> HIDE DEF old
  <2> QED BY <1>3, <2>1
<1> HIDE DEF old
<1>14. \A e \in new : \E a \in old : f[a] = e
  <2> SUFFICES ASSUME NEW e \in new
               PROVE  \E a \in old : f[a] = e
    OBVIOUS
  <2>1. CASE e = b
    <3>1. there(1) \in old /\ f[there(1)] = b
      BY <1>2, <1>10, <1>12
    <3> QED BY <2>1, <3>1
  <2>2. CASE \E i \in 1 .. n - 1 : e = there(i)
    <3>1. PICK i \in 1 .. n - 1 : e = there(i)
      BY <2>2
    <3>2. i + 1 \in 1 .. n /\ i + 1 # 1 /\ (i + 1) - 1 = i
      BY <1>2
    <3>3. there(i + 1) \in old /\ f[there(i + 1)] = there(i)
      BY <1>10, <1>12, <3>2
    <3> QED BY <3>1, <3>3
  <2> QED BY <1>11, <2>1, <2>2
<1>15. \A a \in old : ContextAt(f[a])' = ContextAt(a)
  <2> SUFFICES ASSUME NEW a \in old
               PROVE  ContextAt(f[a])' = ContextAt(a)
    OBVIOUS
  <2>1. PICK i \in 1 .. n : a = there(i)
    BY <1>10
  <2>2. ContextAt(a) = pending[i]
    BY <1>8, <2>1
  <2>3. CASE i = 1
    <3>1. f[a] = b
      BY <1>12, <2>1, <2>3
    <3> QED BY <1>2, <2>2, <2>3, <3>1
  <2>4. CASE i # 1
    <3>1. f[a] = there(i - 1)
      BY <1>12, <2>1, <2>4
    <3>2. i - 1 \in 1 .. n - 1 /\ (i - 1) + 1 = i
      BY <1>2, <2>4
    <3>3. ContextAt(there(i - 1))' = pending[i]
      BY <1>2, <1>7, <3>2
    <3> QED BY <2>2, <3>1, <3>3
  <2> QED BY <2>3, <2>4
<1>16. old \subseteq Places
  BY <1>4, <1>10
<1>17. Places' = (Places \ old) \cup new
  BY <1>4, <1>5, <1>6, <1>9, <1>10, <1>11
<1>18. \A a \in Places \ old : ContextAt(a)' = ContextAt(a)
  BY <1>5, <1>10
<1>19. Relocates(old, new, f)
  BY <1>13, <1>14, <1>15, <1>16, <1>17, <1>18 DEF Relocates
<1>20. phase # "done" /\ phase # "summarize"
  OBVIOUS
<1> QED BY <1>19, <1>20, MoveKeeps

(* A succeeding context goes to the merger, the explorer or the next       *)
(* cycle.                                                                  *)
LEMMA DispatchRuns ==
  ASSUME RunsInv, Inv', Faithful', Dispatch
  PROVE  RunsInv'
<1>1. PICK c : c = Head(pending)
  OBVIOUS
<1>2. /\ prog' = prog /\ phase = "dispatch" /\ phase' # "summarize" /\ held' = held
      /\ pending # <<>> /\ pending' = Tail(pending)
      /\ \/ /\ ReachedMergePoint(c)
            /\ merger' = [merger EXCEPT ![MergePoint(c)] = Append(@, c)]
            /\ explorer' = explorer /\ succeeding' = succeeding
         \/ /\ explorer' = explorer \cup {c}
            /\ merger' = merger /\ succeeding' = succeeding
         \/ /\ succeeding' = {c} /\ explorer' = explorer /\ merger' = merger
  BY <1>1 DEF Dispatch
<1>3. succeeding = {} /\ \A m \in DOMAIN merger : IsSeq(merger[m])
  BY <1>2 DEF RunsInv, Inv, ControlInv, ExitOK, EngineOK
<1>4. CASE /\ ReachedMergePoint(c)
           /\ merger' = [merger EXCEPT ![MergePoint(c)] = Append(@, c)]
           /\ explorer' = explorer /\ succeeding' = succeeding
  <2>1. PICK m \in DOMAIN merger : m = MergePoint(c)
    BY <1>4 DEF ReachedMergePoint
  <2>2. PICK n \in Nat : n = Len(merger[m])
    BY <1>3 DEF IsSeq
  <2>3. /\ DOMAIN merger[m] = 1 .. n /\ DOMAIN (merger'[m]) = 1 .. n + 1
        /\ merger'[m][n + 1] = c /\ \A i \in 1 .. n : merger'[m][i] = merger[m][i]
    <3>1. merger'[m] = Append(merger[m], c) /\ merger[m] \in Seq(RangeOf(merger[m]) \cup {c})
      BY <1>3, <1>4, <2>1 DEF IsSeq
    <3> QED BY <2>2, <3>1
  <2>4. DOMAIN merger' = DOMAIN merger /\ \A k \in DOMAIN merger : k # m => merger'[k] = merger[k]
    BY <1>4, <2>1
  <2> DEFINE b == <<"merger", m, n + 1>>
  <2>5. ContextAt(b)' = Head(pending) /\ b[1] # "pending"
    BY <1>1, <2>3, NextPlaces
  <2>6. ASSUME NEW a
        PROVE  a \in Places' <=> \/ a \in Places /\ a[1] # "pending"
                                 \/ a = b
                                 \/ \E i \in DOMAIN pending' : a = <<"pending", 0, i>>
    <3>1. (\E k \in DOMAIN merger' : \E i \in DOMAIN (merger'[k]) : a = <<"merger", k, i>>) <=>
            (\E k \in DOMAIN merger : \E i \in DOMAIN merger[k] : a = <<"merger", k, i>>) \/ a = b
      <4>1. ASSUME NEW k \in DOMAIN merger
            PROVE  (\E i \in DOMAIN (merger'[k]) : a = <<"merger", k, i>>) <=>
                     (\E i \in DOMAIN merger[k] : a = <<"merger", k, i>>) \/ (k = m /\ a = b)
        <5>1. CASE k = m
          BY <2>3, <5>1
        <5>2. CASE k # m
          BY <2>4, <5>2
        <5> QED BY <5>1, <5>2
      <4> QED BY <2>1, <2>4, <4>1
    <3>2. a \in Places' <=>
            \/ \E d \in explorer : a = <<"explorer", d, 0>>
            \/ \E d \in succeeding : a = <<"succeeding", d, 0>>
            \/ \E k \in DOMAIN merger' : \E i \in DOMAIN (merger'[k]) : a = <<"merger", k, i>>
            \/ \E i \in DOMAIN held : a = <<"held", 0, i>>
            \/ \E i \in DOMAIN pending' : a = <<"pending", 0, i>>
      BY <1>2, <1>4, NextPlaces
    <3>3. a \in Places /\ a[1] # "pending" <=>
            \/ \E d \in explorer : a = <<"explorer", d, 0>>
            \/ \E d \in succeeding : a = <<"succeeding", d, 0>>
            \/ \E k \in DOMAIN merger : \E i \in DOMAIN merger[k] : a = <<"merger", k, i>>
            \/ \E i \in DOMAIN held : a = <<"held", 0, i>>
      BY PlaceForms
    <3> HIDE DEF b
    <3> QED BY <3>1, <3>2, <3>3
  <2>7. ASSUME NEW a \in Places, a[1] # "pending"
        PROVE  ContextAt(a)' = ContextAt(a)
    <3>1. CASE \E k \in DOMAIN merger : \E i \in DOMAIN merger[k] : a = <<"merger", k, i>>
      <4>0. PICK k \in DOMAIN merger : \E i \in DOMAIN merger[k] : a = <<"merger", k, i>>
        BY <3>1
      <4>1. PICK i \in DOMAIN merger[k] : a = <<"merger", k, i>>
        BY <4>0
      <4>2. merger'[k][i] = merger[k][i]
        BY <2>3, <2>4, <4>0, <4>1
      <4> QED BY <4>1, <4>2, ContextForms, NextPlaces
    <3>2. CASE a[1] \in {"explorer", "succeeding", "held"}
      BY <1>2, <3>2 DEF ContextAt
    <3> QED BY <2>7, <3>1, <3>2, PlaceForms
  <2> HIDE DEF b
  <2> QED BY <1>2, <2>5, <2>6, <2>7, DispatchTo
<1>5. CASE /\ explorer' = explorer \cup {c} /\ merger' = merger /\ succeeding' = succeeding
  <2> DEFINE b == <<"explorer", c, 0>>
  <2>1. ContextAt(b)' = Head(pending) /\ b[1] # "pending"
    BY <1>1, NextPlaces
  <2>2. ASSUME NEW a
        PROVE  a \in Places' <=> \/ a \in Places /\ a[1] # "pending"
                                 \/ a = b
                                 \/ \E i \in DOMAIN pending' : a = <<"pending", 0, i>>
    BY <1>2, <1>5, PlaceForms, NextPlaces
  <2>3. \A a \in Places : a[1] # "pending" => ContextAt(a)' = ContextAt(a)
    <3>1. \A a : a[1] \in {"explorer", "succeeding", "held", "merger"} => ContextAt(a)' = ContextAt(a)
      BY <1>2, <1>5 DEF ContextAt
    <3>2. \A a \in Places : a[1] # "pending" => a[1] \in {"explorer", "succeeding", "held", "merger"}
      BY PlaceForms
    <3> QED BY <3>1, <3>2
  <2> HIDE DEF b
  <2> QED BY <1>2, <2>1, <2>2, <2>3, DispatchTo
<1>6. CASE succeeding' = {c} /\ explorer' = explorer /\ merger' = merger
  <2> DEFINE b == <<"succeeding", c, 0>>
  <2>1. ContextAt(b)' = Head(pending) /\ b[1] # "pending"
    BY <1>1, NextPlaces
  <2>2. ASSUME NEW a
        PROVE  a \in Places' <=> \/ a \in Places /\ a[1] # "pending"
                                 \/ a = b
                                 \/ \E i \in DOMAIN pending' : a = <<"pending", 0, i>>
    BY <1>2, <1>3, <1>6, PlaceForms, NextPlaces
  <2>3. \A a \in Places : a[1] # "pending" => ContextAt(a)' = ContextAt(a)
    <3>1. \A a : a[1] \in {"explorer", "succeeding", "held", "merger"} => ContextAt(a)' = ContextAt(a)
      BY <1>2, <1>6 DEF ContextAt
    <3>2. \A a \in Places : a[1] # "pending" => a[1] \in {"explorer", "succeeding", "held", "merger"}
      BY PlaceForms
    <3> QED BY <3>1, <3>2
  <2> HIDE DEF b
  <2> QED BY <1>2, <2>1, <2>2, <2>3, DispatchTo
<1> QED BY <1>2, <1>4, <1>5, <1>6

-----------------------------------------------------------------------------
(* What the executor returns follows the runs a step further.              *)

(* Whatever the configuration of the run, after its step it matches d.     *)
StepsTo(c, d, w) ==
  \A k : (IsConfiguration(k) /\ Matches(c, w, k)) =>
    /\ IsConfiguration(ConcreteStep(P, w, k))
    /\ Matches(d, w, ConcreteStep(P, w, k))

(* The context that is executed.                                           *)
LEMMA PoppedFollows ==
  ASSUME RunsInv, NEW c \in explorer, Pop(c)
  PROVE  /\ prog \in Programs /\ StoreMeans(P, c) /\ c.cycle = cycle /\ cycle # CycleBound
         /\ \A w \in PathWorlds(P, c) : w \in Worlds(P) /\ Follows(c, w)
<1>1. <<"explorer", c, 0>> \in Places /\ ContextAt(<<"explorer", c, 0>>) = c
  BY PlaceForms, ContextForms
<1>2. StandsFor(<<"explorer", c, 0>>) = c
  BY <1>1, PlainPlace
<1>3. StoreMeans(P, c)
  BY <1>1, LiveAtPlaces DEF RunsInv
<1>4. \A w \in PathWorlds(P, c) : Follows(c, w)
  BY <1>1, <1>2 DEF RunsInv, ContextsFollowRuns
<1>5. ControlInv
  BY DEF RunsInv, Inv
<1>6. c.cycle = cycle /\ cycle # CycleBound
  BY <1>5, PopOK, CycleBoundAssumption
<1>7. \A w \in PathWorlds(P, c) : w \in Worlds(P)
  BY SatisfyingAt DEF PathWorlds
<1> QED BY <1>3, <1>4, <1>5, <1>6, <1>7 DEF ControlInv, EngineOK

(* A successor that has made the step of the run follows it.               *)
LEMMA StepFollows ==
  ASSUME RunsInv, NEW c \in explorer, Pop(c), NEW w \in PathWorlds(P, c), NEW d,
         StepsTo(c, d, w)
  PROVE  Follows(d, w)
<1>1. PICK k : OnTrace(w, k) /\ IsConfiguration(k) /\ Matches(c, w, k)
  BY PoppedFollows, FollowsIff
<1>2. PICK next : next = ConcreteStep(P, w, k)
  OBVIOUS
<1>3. OnTrace(w, next)
  <2>1. /\ prog \in Programs /\ w \in Worlds(Code[prog]) /\ k.cycle # CycleBound
    BY <1>1, PoppedFollows DEF Matches, P
  <2>2. PICK pos : pos = Position(k)
    OBVIOUS
  <2>3. pos \in DOMAIN Trace[prog][w] /\ Trace[prog][w][pos] = k
    BY <1>1, <2>2 DEF OnTrace
  <2>4. next = ConcreteStep(Code[prog], w, Trace[prog][w][pos])
    BY <1>2, <2>3 DEF P
  <2>5. Trace[prog][w][pos].cycle # CycleBound
    BY <2>1, <2>3
  <2> QED BY <2>1, <2>3, <2>4, <2>5, TraceStep DEF OnTrace
<1>4. IsConfiguration(next) /\ Matches(d, w, next)
  BY <1>1, <1>2 DEF StepsTo
<1> QED BY <1>3, <1>4, FollowsIff

(* The executor returns contexts that have followed the runs of the popped *)
(* one.                                                                    *)
StepsAlong(c, contexts) ==
  \A i \in DOMAIN contexts : \A w \in PathWorlds(P, contexts[i]) :
    w \in PathWorlds(P, c) /\ StepsTo(c, contexts[i], w)

(* The executor has popped a context and returns what makes the steps of   *)
(* its runs.                                                               *)
ExecutesStep ==
  \E c \in explorer : Pop(c) /\ \E contexts : Return(contexts) /\ StepsAlong(c, contexts)

(* One successor that has made the step of every run.                      *)
LEMMA ReturnOneKeeps ==
  ASSUME RunsInv, Inv', Faithful', NEW c \in explorer, Pop(c), NEW d, Return(<<d>>),
         StoreMeans(P, d), PathWorlds(P, d) = PathWorlds(P, c),
         \A w \in PathWorlds(P, c) : StepsTo(c, d, w)
  PROVE  RunsInv' /\ ExecutesStep
<1>1. PICK contexts : contexts = <<d>>
  OBVIOUS
<1>2. DOMAIN contexts = {1} /\ contexts[1] = d
  BY <1>1
<1>3. \A i \in DOMAIN contexts :
        /\ StoreMeans(P, contexts[i])
        /\ \A w \in PathWorlds(P, contexts[i]) : w \in PathWorlds(P, c) /\ Follows(contexts[i], w)
  BY <1>2, StepFollows
<1>4. \A w \in PathWorlds(P, c) : \E i \in DOMAIN contexts :
        \A j \in DOMAIN contexts : w \in PathWorlds(P, contexts[j]) <=> j = i
  BY <1>2
<1>5. Return(contexts)
  BY <1>1
<1>6. RunsInv'
  BY <1>3, <1>4, <1>5, ReturnKeeps
<1>7. StepsAlong(c, contexts)
  BY <1>2 DEF StepsAlong
<1> QED BY <1>5, <1>6, <1>7 DEF ExecutesStep

(* What a step makes of a configuration.                                   *)
Passed(k, l) == [k EXCEPT !.label = l]

(* Back in the frame of the caller.                                        *)
Returned(k) == [k EXCEPT !.label = ReturnLabel(k), !.stack = SubSeq(@, 1, Len(@) - 1)]

(* After an assignment.                                                    *)
Written(k, x, b, l) == [k EXCEPT !.env[x] = b, !.label = l]

(* After a branch.                                                         *)
Branched(k, b, l) == [k EXCEPT !.label = l, !.taken = @ \cup {<<k.label, b>>}]

(* In the frame of the callee.                                             *)
Called(k, i, r, l) ==
  [k EXCEPT !.label = l, !.stack = Append(@, [scope |-> Append(Scope(k), i), ret |-> r])]

(* The step of the run at a vertex, by the kind of the vertex.             *)
StepAt(p, w, k, g, v) ==
  /\ (v.type = "ENTRY" \/ (v.type = "REGULAR" /\ v.op = "none")) =>
       ConcreteStep(p, w, k) = Passed(k, SucceedingLabel(g, k.label))
  /\ (v.type = "EXIT" /\ g.type = "PROGRAM") => ConcreteStep(p, w, k) = ConcreteNextCycle(p, w, k)
  /\ (v.type = "EXIT" /\ g.type = "FUNCTION_BLOCK") => ConcreteStep(p, w, k) = Returned(k)
  /\ v.op = "assign" =>
       ConcreteStep(p, w, k) = Written(k, Flatten(Scope(k), v.var), Evaluate(k, v.rhs),
                                       Target(g, k.label, "INTRAPROCEDURAL"))
  /\ v.op = "havoc" =>
       ConcreteStep(p, w, k) = Written(k, Flatten(Scope(k), v.var),
                                       <<k.cycle, <<Scope(k), "havoc", k.label>>>> \in w,
                                       Target(g, k.label, "INTRAPROCEDURAL"))
  /\ v.op = "if" =>
       ConcreteStep(p, w, k) = Branched(k, Evaluate(k, v.cond),
                                        Target(g, k.label, IF Evaluate(k, v.cond)
                                                           THEN "TRUE_BRANCH"
                                                           ELSE "FALSE_BRANCH"))
  /\ v.op = "call" =>
       ConcreteStep(p, w, k) = Called(k, v.instance, Target(g, k.label, "CALL_TO_RETURN"),
                                      Target(g, k.label, "CALL"))

(* The simulator steps by the kind of the vertex.                          *)
LEMMA ConcreteSteps ==
  ASSUME NEW p, NEW w, NEW k, NEW g, g = CfgOf(p, Scope(k)), NEW v, v = g.vertices[k.label],
         v.type \in {"ENTRY", "REGULAR", "EXIT"}, v.type # "REGULAR" => v.op = "none"
  PROVE  StepAt(p, w, k, g, v)
<1> DEFINE pass == [k EXCEPT !.label = SucceedingLabel(g, k.label)]
           back == [k EXCEPT !.label = ReturnLabel(k), !.stack = SubSeq(@, 1, Len(@) - 1)]
           assigned == [k EXCEPT !.env[Flatten(Scope(k), v.var)] = Evaluate(k, v.rhs),
                                 !.label = Target(g, k.label, "INTRAPROCEDURAL")]
           havocked == [k EXCEPT !.env[Flatten(Scope(k), v.var)] =
                                    <<k.cycle, <<Scope(k), "havoc", k.label>>>> \in w,
                                 !.label = Target(g, k.label, "INTRAPROCEDURAL")]
           branched == [k EXCEPT !.label = Target(g, k.label, IF Evaluate(k, v.cond)
                                                             THEN "TRUE_BRANCH"
                                                             ELSE "FALSE_BRANCH"),
                                 !.taken = @ \cup {<<k.label, Evaluate(k, v.cond)>>}]
           called == [k EXCEPT !.label = Target(g, k.label, "CALL"),
                               !.stack = Append(@, [scope |-> Append(Scope(k), v.instance),
                                                    ret |-> Target(g, k.label, "CALL_TO_RETURN")])]
<1>1. ConcreteStep(p, w, k) =
        CASE v.type = "ENTRY" -> pass
          [] v.type = "EXIT" /\ g.type = "PROGRAM" -> ConcreteNextCycle(p, w, k)
          [] v.type = "EXIT" /\ g.type = "FUNCTION_BLOCK" -> back
          [] v.type = "REGULAR" /\ v.op = "none" -> pass
          [] v.type = "REGULAR" /\ v.op = "assign" -> assigned
          [] v.type = "REGULAR" /\ v.op = "havoc" -> havocked
          [] v.type = "REGULAR" /\ v.op = "if" -> branched
          [] v.type = "REGULAR" /\ v.op = "call" -> called
  BY Zenon DEF ConcreteStep
<1>2. /\ pass = Passed(k, SucceedingLabel(g, k.label)) /\ back = Returned(k)
      /\ assigned = Written(k, Flatten(Scope(k), v.var), Evaluate(k, v.rhs),
                            Target(g, k.label, "INTRAPROCEDURAL"))
      /\ havocked = Written(k, Flatten(Scope(k), v.var),
                            <<k.cycle, <<Scope(k), "havoc", k.label>>>> \in w,
                            Target(g, k.label, "INTRAPROCEDURAL"))
      /\ branched = Branched(k, Evaluate(k, v.cond),
                             Target(g, k.label, IF Evaluate(k, v.cond) THEN "TRUE_BRANCH"
                                                                       ELSE "FALSE_BRANCH"))
      /\ called = Called(k, v.instance, Target(g, k.label, "CALL_TO_RETURN"),
                         Target(g, k.label, "CALL"))
  BY Zenon DEF Passed, Returned, Written, Branched, Called
<1> HIDE DEF pass, back, assigned, havocked, branched, called
<1> QED BY <1>1, <1>2 DEF StepAt

-----------------------------------------------------------------------------
(* The handlers of the executor that return one context.                   *)

(* What is known of the context that is popped and of its vertex.          *)
LEMMA PoppedVertex ==
  ASSUME RunsInv, NEW c \in explorer, Pop(c)
  PROVE  /\ ContextOK(P, c) /\ StoreOK(P, version, c) /\ c.cycle = cycle /\ cycle \in Nat
         /\ version \in [FlattenedInterface(P) -> Nat]
         /\ WellFormed(P) /\ AtVertex(P, c) /\ Scope(c) \in DOMAIN P.scopes
         /\ WellFormedVertex(P, Scope(c), c.label)
         /\ Vertex(c).type \in {"ENTRY", "REGULAR", "EXIT"}
         /\ Vertex(c).type # "REGULAR" => Vertex(c).op = "none"
         /\ \A ref \in References(Vertex(c)) : Flatten(Scope(c), ref) \in FlattenedInterface(P)
         /\ Vertex(c).op = "assign" => IsExpression(Vertex(c).rhs)
         /\ Vertex(c).op = "if" => IsExpression(Vertex(c).cond)
<1>1. Inv
  BY DEF RunsInv
<1>2. ControlInv
  BY <1>1 DEF Inv
<1>3. /\ ContextOK(P, c) /\ StoreOK(P, version, c) /\ c.cycle = cycle /\ cycle \in Nat
      /\ version \in [FlattenedInterface(P) -> Nat]
      /\ \A ref \in References(Vertex(c)) : Flatten(Scope(c), ref) \in FlattenedInterface(P)
  BY <1>1, PoppedReferences
<1>4. /\ WellFormed(P) /\ AtVertex(P, c) /\ Scope(c) \in DOMAIN P.scopes
      /\ WellFormedVertex(P, Scope(c), c.label)
  BY <1>2, PopOK
<1>5. /\ Vertex(c).type \in {"ENTRY", "REGULAR", "EXIT"}
      /\ Vertex(c).type # "REGULAR" => Vertex(c).op = "none"
  BY <1>4 DEF WellFormedVertex, Vertex
<1>6. /\ Vertex(c).op = "assign" => IsExpression(Vertex(c).rhs)
      /\ Vertex(c).op = "if" => IsExpression(Vertex(c).cond)
  <2>1. prog \in Programs
    BY <1>2 DEF ControlInv, EngineOK
  <2>2. P.scopes[Scope(c)] \in DOMAIN P.cfgs /\ CfgOf(P, Scope(c)) = P.cfgs[P.scopes[Scope(c)]]
    BY <1>4 DEF WellFormed, CfgOf
  <2>3. Vertex(c) \in RangeOf(P.cfgs[P.scopes[Scope(c)]].vertices)
    BY <1>4, <2>2 DEF Vertex, AtVertex, RangeOf
  <2> QED BY <2>1, <2>2, <2>3, ExpressionsAssumption DEF P
<1> QED BY <1>3, <1>4, <1>5, <1>6

(* The same vertex is that of a configuration which the context matches.   *)
LEMMA AtSameVertex ==
  ASSUME NEW c, NEW w, NEW k, Matches(c, w, k)
  PROVE  /\ Scope(k) = Scope(c) /\ k.label = c.label /\ k.stack = c.stack /\ k.cycle = c.cycle
         /\ CfgOf(P, Scope(k)).vertices[k.label] = Vertex(c)
         /\ ReturnLabel(k) = ReturnLabel(c)
BY DEF Matches, Scope, Vertex, ReturnLabel

(* The step of a configuration that the popped context matches.            *)
LEMMA StepOfPopped ==
  ASSUME RunsInv, NEW c \in explorer, Pop(c), NEW w, NEW k, Matches(c, w, k)
  PROVE  StepAt(P, w, k, CfgOf(P, Scope(c)), Vertex(c))
<1>1. CfgOf(P, Scope(c)) = CfgOf(P, Scope(k)) /\ Vertex(c) = CfgOf(P, Scope(c)).vertices[k.label]
  BY AtSameVertex
<1>2. /\ Vertex(c).type \in {"ENTRY", "REGULAR", "EXIT"}
      /\ Vertex(c).type # "REGULAR" => Vertex(c).op = "none"
  BY PoppedVertex
<1> HIDE DEF Vertex
<1> QED BY <1>1, <1>2, ConcreteSteps

(* A context that moves with its values matches what moves alike.          *)
LEMMA MovedMatches ==
  ASSUME NEW c, NEW w, NEW k, IsConfiguration(k), Matches(c, w, k),
         NEW d, d.val = c.val, d.ver = c.ver, d.cycle = c.cycle,
         NEW next, IsConfiguration(next), next.cycle = k.cycle, next.label = d.label,
         next.stack = d.stack, next.env = k.env
  PROVE  Matches(d, w, next)
<1>1. \A x : CurrentValue(d, x) = CurrentValue(c, x)
  BY SameMeaning
<1> QED BY <1>1 DEF Matches

(* Entry vertices and vertices without an instruction.                     *)
LEMMA HandlePassThroughVertexRuns ==
  ASSUME RunsInv, Inv', Faithful', HandlePassThroughVertex
  PROVE  RunsInv' /\ ExecutesStep
<1>1. PICK c \in explorer :
        /\ Pop(c)
        /\ Vertex(c).type = "ENTRY" \/ (Vertex(c).type = "REGULAR" /\ Vertex(c).op = "none")
        /\ Return(<<[c EXCEPT !.label = SucceedingLabel(CfgOf(P, Scope(c)), c.label)]>>)
  BY DEF HandlePassThroughVertex
<1> DEFINE d == [c EXCEPT !.label = SucceedingLabel(CfgOf(P, Scope(c)), c.label)]
<1>2. ContextOK(P, c)
  BY <1>1, PoppedVertex
<1>3. /\ d.val = c.val /\ d.pc = c.pc /\ d.ver = c.ver /\ d.cycle = c.cycle /\ d.stack = c.stack
      /\ d.label = SucceedingLabel(CfgOf(P, Scope(c)), c.label)
  BY <1>2 DEF ContextOK
<1>4. Return(<<d>>)
  BY <1>1
<1> HIDE DEF d
<1>5. StoreMeans(P, d) /\ PathWorlds(P, d) = PathWorlds(P, c)
  BY <1>1, <1>3, PoppedFollows, SameMeaning
<1>6. ASSUME NEW w, NEW k, IsConfiguration(k), Matches(c, w, k),
             NEW next, next = ConcreteStep(P, w, k)
      PROVE  IsConfiguration(next) /\ Matches(d, w, next)
  <2>1. next = Passed(k, SucceedingLabel(CfgOf(P, Scope(c)), k.label))
    BY <1>1, <1>6, StepOfPopped DEF StepAt
  <2>2. /\ IsConfiguration(next) /\ next.cycle = k.cycle /\ next.stack = k.stack /\ next.env = k.env
        /\ next.label = SucceedingLabel(CfgOf(P, Scope(c)), k.label)
    BY <1>6, <2>1 DEF IsConfiguration, Passed
  <2>3. next.label = d.label /\ next.stack = d.stack
    BY <1>3, <1>6, <2>2, AtSameVertex
  <2> QED BY <1>3, <1>6, <2>2, <2>3, MovedMatches
<1>7. \A w \in PathWorlds(P, c) : StepsTo(c, d, w)
  BY <1>6 DEF StepsTo
<1> QED BY <1>1, <1>4, <1>5, <1>7, ReturnOneKeeps

(* Returning from a function block.                                        *)
LEMMA HandleFunctionBlockExitVertexRuns ==
  ASSUME RunsInv, Inv', Faithful', HandleFunctionBlockExitVertex
  PROVE  RunsInv' /\ ExecutesStep
<1>1. PICK c \in explorer :
        /\ Pop(c)
        /\ Vertex(c).type = "EXIT"
        /\ CfgOf(P, Scope(c)).type = "FUNCTION_BLOCK"
        /\ Return(<<[c EXCEPT !.label = ReturnLabel(c), !.stack = SubSeq(@, 1, Len(@) - 1)]>>)
  BY DEF HandleFunctionBlockExitVertex
<1> DEFINE d == [c EXCEPT !.label = ReturnLabel(c), !.stack = SubSeq(@, 1, Len(@) - 1)]
<1>2. ContextOK(P, c)
  BY <1>1, PoppedVertex
<1>3. /\ d.val = c.val /\ d.pc = c.pc /\ d.ver = c.ver /\ d.cycle = c.cycle
      /\ d.stack = SubSeq(c.stack, 1, Len(c.stack) - 1) /\ d.label = ReturnLabel(c)
  BY <1>2 DEF ContextOK
<1>4. Return(<<d>>)
  BY <1>1
<1> HIDE DEF d
<1>5. StoreMeans(P, d) /\ PathWorlds(P, d) = PathWorlds(P, c)
  BY <1>1, <1>3, PoppedFollows, SameMeaning
<1>6. ASSUME NEW w, NEW k, IsConfiguration(k), Matches(c, w, k),
             NEW next, next = ConcreteStep(P, w, k)
      PROVE  IsConfiguration(next) /\ Matches(d, w, next)
  <2>1. next = Returned(k)
    BY <1>1, <1>6, StepOfPopped DEF StepAt
  <2>2. /\ IsConfiguration(next) /\ next.cycle = k.cycle /\ next.env = k.env
        /\ next.stack = SubSeq(k.stack, 1, Len(k.stack) - 1) /\ next.label = ReturnLabel(k)
    BY <1>6, <2>1 DEF IsConfiguration, Returned
  <2>3. next.label = d.label /\ next.stack = d.stack
    BY <1>3, <1>6, <2>2, AtSameVertex
  <2> QED BY <1>3, <1>6, <2>2, <2>3, MovedMatches
<1>7. \A w \in PathWorlds(P, c) : StepsTo(c, d, w)
  BY <1>6 DEF StepsTo
<1> QED BY <1>1, <1>4, <1>5, <1>7, ReturnOneKeeps

(* Executor::visit of an assignment.                                       *)
LEMMA VisitAssignmentInstructionRuns ==
  ASSUME RunsInv, Inv', Faithful', VisitAssignmentInstruction
  PROVE  RunsInv' /\ ExecutesStep
<1>1. PICK c \in explorer :
        /\ Pop(c)
        /\ Vertex(c).op = "assign"
        /\ Return(<<Assign(P, version, c, Flatten(Scope(c), Vertex(c).var), Vertex(c).rhs,
                           Target(CfgOf(P, Scope(c)), c.label, "INTRAPROCEDURAL"))>>)
  BY DEF VisitAssignmentInstruction
<1> DEFINE x == Flatten(Scope(c), Vertex(c).var)
           e == Vertex(c).rhs
           l == Target(CfgOf(P, Scope(c)), c.label, "INTRAPROCEDURAL")
           d == Assign(P, version, c, x, e, l)
<1>2. /\ ContextOK(P, c) /\ StoreOK(P, version, c) /\ c.cycle \in Nat
      /\ version \in [FlattenedInterface(P) -> Nat]
      /\ x \in FlattenedInterface(P) /\ IsExpression(e)
      /\ \A ref \in ArgumentsOf(e) : Flatten(Scope(c), ref) \in FlattenedInterface(P)
  BY <1>1, PoppedVertex DEF References
<1>3. Return(<<d>>)
  BY <1>1
<1>4. d.label = l /\ d.stack = c.stack /\ d.cycle = c.cycle
  BY <1>2 DEF Assign, ContextOK
<1>5. /\ x = Flatten(Scope(c), Vertex(c).var) /\ e = Vertex(c).rhs
      /\ l = Target(CfgOf(P, Scope(c)), c.label, "INTRAPROCEDURAL")
  OBVIOUS
<1> HIDE DEF x, e, l
<1>6. StoreMeans(P, c)
  BY <1>1, PoppedFollows
<1>7. d = Assign(P, version, c, x, e, l)
  OBVIOUS
<1> HIDE DEF d
<1>8. /\ StoreMeans(P, d)
      /\ PathWorlds(P, d) = PathWorlds(P, c)
      /\ \A y \in FlattenedInterface(P) :
           CurrentValue(d, y).worlds = IF y = x THEN WorldsOf(P, c.val, Encode(c, e))
                                                ELSE CurrentValue(c, y).worlds
  BY <1>2, <1>6, <1>7, AssignMeans
<1>9. ASSUME NEW w \in Worlds(P), NEW k, IsConfiguration(k), Matches(c, w, k),
             NEW next, next = ConcreteStep(P, w, k)
      PROVE  IsConfiguration(next) /\ Matches(d, w, next)
  <2> DEFINE b == Evaluate(k, e)
  <2>1. next = Written(k, x, b, l)
    <3>1. k.label = c.label /\ Scope(k) = Scope(c)
      BY <1>9, AtSameVertex
    <3>2. next = Written(k, Flatten(Scope(k), Vertex(c).var), Evaluate(k, Vertex(c).rhs),
                         Target(CfgOf(P, Scope(c)), k.label, "INTRAPROCEDURAL"))
      BY <1>1, <1>9, StepOfPopped DEF StepAt
    <3> QED BY <1>5, <3>1, <3>2
  <2>2. b \in BOOLEAN /\ (b <=> w \in WorldsOf(P, c.val, Encode(c, e)))
    <3>1. /\ k.stack = c.stack /\ k.env \in [FlattenedInterface(P) -> BOOLEAN]
          /\ \A y \in FlattenedInterface(P) : k.env[y] <=> w \in CurrentValue(c, y).worlds
      BY <1>9 DEF IsConfiguration, Matches
    <3> QED BY <1>2, <3>1, EvaluationAt
  <2> HIDE DEF b
  <2>3. /\ IsConfiguration(next) /\ next.cycle = k.cycle /\ next.stack = k.stack
        /\ next.label = l /\ next.env = [k.env EXCEPT ![x] = b]
    BY <1>9, <2>1, <2>2 DEF IsConfiguration, Written
  <2>4. k.cycle = c.cycle /\ k.stack = c.stack
    BY <1>9 DEF Matches
  <2>5. ASSUME NEW y \in FlattenedInterface(P)
        PROVE  next.env[y] <=> w \in CurrentValue(d, y).worlds
    <3>1. k.env[y] <=> w \in CurrentValue(c, y).worlds
      BY <1>9 DEF Matches
    <3>2. next.env[y] = IF y = x THEN b ELSE k.env[y]
      BY <1>2, <1>9, <2>3 DEF IsConfiguration
    <3> QED BY <1>8, <2>2, <3>1, <3>2
  <2> QED BY <1>4, <2>3, <2>4, <2>5 DEF Matches
<1>10. \A w \in PathWorlds(P, c) : StepsTo(c, d, w)
  <2>1. \A w \in PathWorlds(P, c) : w \in Worlds(P)
    BY <1>1, PoppedFollows
  <2> QED BY <1>9, <2>1 DEF StepsTo
<1> QED BY <1>1, <1>3, <1>8, <1>10, ReturnOneKeeps

-----------------------------------------------------------------------------
(* Branches.                                                               *)

(* The context d has taken a branch of the condition that c stands at.     *)
TakesBranch(c, d, sign) ==
  /\ d.val = c.val /\ d.ver = c.ver /\ d.cycle = c.cycle /\ d.stack = c.stack
  /\ d.label = Target(CfgOf(P, Scope(c)), c.label, IF sign THEN "TRUE_BRANCH" ELSE "FALSE_BRANCH")
  /\ d.pc = PushPathConstraint(c.pc, <<Encode(c, Vertex(c).cond), sign>>)

(* The branch keeps the worlds in which the condition is so.               *)
LEMMA BranchMeans ==
  ASSUME RunsInv, NEW c \in explorer, Pop(c), Vertex(c).op = "if",
         NEW sign \in BOOLEAN, NEW d, TakesBranch(c, d, sign),
         NEW holds, holds = WorldsOf(P, c.val, Encode(c, Vertex(c).cond))
  PROVE  /\ StoreMeans(P, d)
         /\ sign => PathWorlds(P, d) = PathWorlds(P, c) \cap holds
         /\ ~sign => PathWorlds(P, d) = PathWorlds(P, c) \ holds
         /\ \A w \in PathWorlds(P, d) : StepsTo(c, d, w)
<1>1. StoreMeans(P, d)
  BY PoppedFollows, SameMeaning DEF TakesBranch
<1>2. /\ sign => PathWorlds(P, d) = PathWorlds(P, c) \cap holds
      /\ ~sign => PathWorlds(P, d) = PathWorlds(P, c) \ holds
  <2>1. PICK t : t = Encode(c, Vertex(c).cond)
    OBVIOUS
  <2>2. LiteralMeans(P, c.val, c.pc, t, sign)
    BY LiteralPushed
  <2>3. d.val = c.val /\ d.pc = PushPathConstraint(c.pc, <<t, sign>>)
    BY <2>1 DEF TakesBranch
  <2> QED BY <2>1, <2>2, <2>3 DEF PathWorlds, LiteralMeans
<1>3. ASSUME NEW w \in PathWorlds(P, d), NEW k, IsConfiguration(k), Matches(c, w, k),
             NEW next, next = ConcreteStep(P, w, k)
      PROVE  IsConfiguration(next) /\ Matches(d, w, next)
  <2> DEFINE e == Vertex(c).cond
             b == Evaluate(k, e)
  <2>1. w \in Worlds(P) /\ (w \in holds <=> sign)
    BY <1>2, PoppedFollows
  <2>2. b \in BOOLEAN /\ (b <=> w \in WorldsOf(P, c.val, Encode(c, e)))
    <3>1. /\ k.stack = c.stack /\ k.env \in [FlattenedInterface(P) -> BOOLEAN]
          /\ \A y \in FlattenedInterface(P) : k.env[y] <=> w \in CurrentValue(c, y).worlds
      BY <1>3 DEF IsConfiguration, Matches
    <3>2. /\ IsExpression(e)
          /\ \A ref \in ArgumentsOf(e) : Flatten(Scope(c), ref) \in FlattenedInterface(P)
      BY PoppedVertex DEF References
    <3> QED BY <2>1, <3>1, <3>2, EvaluationAt
  <2>3. b = sign
    BY <2>1, <2>2
  <2>4. next = Branched(k, b, Target(CfgOf(P, Scope(c)), k.label, IF b THEN "TRUE_BRANCH"
                                                                     ELSE "FALSE_BRANCH"))
    BY <1>3, StepOfPopped DEF StepAt
  <2> HIDE DEF b, e
  <2>5. /\ IsConfiguration(next) /\ next.cycle = k.cycle /\ next.stack = k.stack /\ next.env = k.env
        /\ next.label = Target(CfgOf(P, Scope(c)), k.label, IF b THEN "TRUE_BRANCH"
                                                                ELSE "FALSE_BRANCH")
    BY <1>3, <2>4 DEF IsConfiguration, Branched
  <2>6. next.label = d.label /\ next.stack = d.stack
    BY <1>3, <2>3, <2>5, AtSameVertex DEF TakesBranch
  <2> QED BY <1>3, <2>5, <2>6, MovedMatches DEF TakesBranch
<1>4. \A w \in PathWorlds(P, d) : StepsTo(c, d, w)
  BY <1>3 DEF StepsTo
<1> QED BY <1>1, <1>2, <1>4

(* Executor::visit of a condition.                                         *)
LEMMA VisitIfInstructionRuns ==
  ASSUME RunsInv, Inv', Faithful', VisitIfInstruction
  PROVE  RunsInv' /\ ExecutesStep
<1> DEFINE Cond(c) == Encode(c, Vertex(c).cond)
           Holds(c) == WorldsOf(P, c.val, Cond(c))
           Branch(c, sign, type) ==
             [c EXCEPT !.label = Target(CfgOf(P, Scope(c)), c.label, type),
                       !.pc = PushPathConstraint(@, <<Cond(c), sign>>)]
<1>1. PICK c \in explorer :
        /\ Pop(c)
        /\ Vertex(c).op = "if"
        /\ \/ /\ PathWorlds(P, c) \cap Holds(c) = {}
              /\ Return(<<Branch(c, FALSE, "FALSE_BRANCH")>>)
           \/ /\ PathWorlds(P, c) \cap Holds(c) # {}
              /\ PathWorlds(P, c) \subseteq Holds(c)
              /\ Return(<<Branch(c, TRUE, "TRUE_BRANCH")>>)
           \/ /\ PathWorlds(P, c) \cap Holds(c) # {}
              /\ ~(PathWorlds(P, c) \subseteq Holds(c))
              /\ Return(<<Branch(c, TRUE, "TRUE_BRANCH"), Branch(c, FALSE, "FALSE_BRANCH")>>)
  BY Zenon DEF VisitIfInstruction
<1> DEFINE positive == Branch(c, TRUE, "TRUE_BRANCH")
           negative == Branch(c, FALSE, "FALSE_BRANCH")
           holds == Holds(c)
<1>2. TakesBranch(c, positive, TRUE) /\ TakesBranch(c, negative, FALSE)
  <2>1. ContextOK(P, c)
    BY <1>1, PoppedVertex
  <2> QED BY <2>1 DEF TakesBranch, ContextOK
<1>3. Pop(c) /\ Vertex(c).op = "if" /\ holds = WorldsOf(P, c.val, Encode(c, Vertex(c).cond))
  BY <1>1
<1>4. \/ /\ PathWorlds(P, c) \cap holds = {}
         /\ Return(<<negative>>)
      \/ /\ PathWorlds(P, c) \subseteq holds
         /\ Return(<<positive>>)
      \/ Return(<<positive, negative>>)
  BY <1>1, Zenon
<1> HIDE DEF positive, negative, holds
<1>9. \A sign \in BOOLEAN : \A d : TakesBranch(c, d, sign) =>
        /\ StoreMeans(P, d)
        /\ sign => PathWorlds(P, d) = PathWorlds(P, c) \cap holds
        /\ ~sign => PathWorlds(P, d) = PathWorlds(P, c) \ holds
        /\ \A w \in PathWorlds(P, d) : StepsTo(c, d, w)
  <2> SUFFICES ASSUME NEW sign \in BOOLEAN, NEW d, TakesBranch(c, d, sign)
               PROVE  /\ StoreMeans(P, d)
                      /\ sign => PathWorlds(P, d) = PathWorlds(P, c) \cap holds
                      /\ ~sign => PathWorlds(P, d) = PathWorlds(P, c) \ holds
                      /\ \A w \in PathWorlds(P, d) : StepsTo(c, d, w)
    OBVIOUS
  <2> QED BY <1>3, BranchMeans
<1>5. /\ StoreMeans(P, positive) /\ StoreMeans(P, negative)
      /\ PathWorlds(P, positive) = PathWorlds(P, c) \cap holds
      /\ PathWorlds(P, negative) = PathWorlds(P, c) \ holds
      /\ \A w \in PathWorlds(P, positive) : StepsTo(c, positive, w)
      /\ \A w \in PathWorlds(P, negative) : StepsTo(c, negative, w)
  <2>1. PICK yes, no : yes = TRUE /\ no = FALSE
    OBVIOUS
  <2>2. yes \in BOOLEAN /\ no \in BOOLEAN /\ TakesBranch(c, positive, yes) /\ TakesBranch(c, negative, no)
    BY <1>2, <2>1
  <2> QED BY <1>9, <2>1, <2>2
<1>6. CASE PathWorlds(P, c) \cap holds = {} /\ Return(<<negative>>)
  <2>1. PathWorlds(P, negative) = PathWorlds(P, c)
    BY <1>5, <1>6
  <2> QED BY <1>3, <1>5, <1>6, <2>1, ReturnOneKeeps
<1>7. CASE PathWorlds(P, c) \subseteq holds /\ Return(<<positive>>)
  <2>1. PathWorlds(P, positive) = PathWorlds(P, c)
    BY <1>5, <1>7
  <2> QED BY <1>3, <1>5, <1>7, <2>1, ReturnOneKeeps
<1>8. CASE Return(<<positive, negative>>)
  <2>1. PICK contexts : contexts = <<positive, negative>>
    OBVIOUS
  <2>2. DOMAIN contexts = {1, 2} /\ contexts[1] = positive /\ contexts[2] = negative
    BY <2>1
  <2>3. \A w \in PathWorlds(P, positive) : Follows(positive, w)
    BY <1>3, <1>5, StepFollows
  <2>4. \A w \in PathWorlds(P, negative) : Follows(negative, w)
    BY <1>3, <1>5, StepFollows
  <2>5. \A i \in DOMAIN contexts :
          /\ StoreMeans(P, contexts[i])
          /\ \A w \in PathWorlds(P, contexts[i]) : w \in PathWorlds(P, c) /\ Follows(contexts[i], w)
    BY <1>5, <2>2, <2>3, <2>4
  <2>6. ASSUME NEW w \in PathWorlds(P, c)
        PROVE  \E i \in DOMAIN contexts :
                 \A j \in DOMAIN contexts : w \in PathWorlds(P, contexts[j]) <=> j = i
    <3>1. w \in PathWorlds(P, contexts[1]) <=> w \notin PathWorlds(P, contexts[2])
      BY <1>5, <2>2, <2>6
    <3> QED BY <2>2, <3>1
  <2>7. Return(contexts)
    BY <1>8, <2>1
  <2>8. RunsInv'
    BY <1>3, <2>5, <2>6, <2>7, ReturnKeeps
  <2>9. StepsAlong(c, contexts)
    <3>1. \A w \in PathWorlds(P, positive) : w \in PathWorlds(P, c) /\ StepsTo(c, positive, w)
      BY <1>5
    <3>2. \A w \in PathWorlds(P, negative) : w \in PathWorlds(P, c) /\ StepsTo(c, negative, w)
      BY <1>5
    <3> QED BY <2>2, <3>1, <3>2 DEF StepsAlong
  <2> QED BY <1>3, <2>7, <2>8, <2>9 DEF ExecutesStep
<1> QED BY <1>4, <1>6, <1>7, <1>8

-----------------------------------------------------------------------------
(* The end of the cycle.                                                   *)

(* The context at the exit of the program is alone, so that it answers for *)
(* all worlds.                                                             *)
LEMMA ExitTakesAll ==
  ASSUME RunsInv, NEW c \in explorer, Pop(c), AtProgramExit(c)
  PROVE  PathWorlds(P, c) = Worlds(P)
<1>1. ControlInv /\ phase = "step"
  BY DEF RunsInv, Inv, Pop
<1>2. explorer = {c} /\ MergerIsEmpty
  BY <1>1 DEF ControlInv, ExitOK
<1>3. held = <<>> /\ pending = <<>> /\ succeeding = {}
  BY <1>1, PopOK
<1>4. /\ DOMAIN held = {} /\ DOMAIN pending = {}
      /\ \A m \in DOMAIN merger : DOMAIN merger[m] = {}
  BY <1>2, <1>3 DEF MergerIsEmpty
<1>5. \A a : a \in Places <=> a = <<"explorer", c, 0>>
  BY <1>2, <1>3, <1>4, PlaceForms
<1>6. Share(<<"explorer", c, 0>>) = PathWorlds(P, c)
  BY <1>1, PlainPlace, ContextForms
<1>7. ASSUME NEW w \in Worlds(P)
      PROVE  w \in PathWorlds(P, c)
  <2>1. SharedOut(Worlds(P), Places, [place \in Places |-> Share(place)])
    BY <1>1 DEF RunsInv, WorldsAreSharedOut
  <2>2. PICK a \in Places : w \in [place \in Places |-> Share(place)][a]
    BY <2>1 DEF SharedOut
  <2> QED BY <1>5, <1>6, <2>2
<1>8. \A w \in PathWorlds(P, c) : w \in Worlds(P)
  BY PoppedFollows
<1> QED BY <1>7, <1>8

(* The end of the cycle, with the path constraint forgotten.               *)
LEMMA HandleProgramExitVertexRuns ==
  ASSUME RunsInv, Inv', Faithful', HandleProgramExitVertex
  PROVE  RunsInv' /\ ExecutesStep
<1>1. PICK c \in explorer :
        /\ Pop(c)
        /\ Vertex(c).type = "EXIT"
        /\ CfgOf(P, Scope(c)).type = "PROGRAM"
        /\ Return(<<NextCycle(P, c)>>)
  BY DEF HandleProgramExitVertex
<1> DEFINE d == NextCycle(P, c)
<1>2. /\ ContextOK(P, c) /\ StoreOK(P, version, c) /\ c.cycle \in Nat /\ WellFormed(P)
      /\ WellFormedVertex(P, Scope(c), c.label)
  BY <1>1, PoppedVertex
<1>3. AtProgramExit(c)
  <2>1. Depth(c) = 1 /\ Scope(c) = MainScope(P)
    BY <1>1, <1>2, FramesOfContext
  <2>2. c.label = MainCfg(P).exit
    BY <1>1, <1>2, <2>1 DEF WellFormedVertex, Vertex, MainCfg
  <2> QED BY <2>1, <2>2 DEF AtProgramExit
<1>4. /\ d.cycle = c.cycle + 1 /\ d.label = ReturnLabel(c) /\ d.stack = c.stack
  BY <1>2 DEF NextCycle, ContextOK
<1>5. Return(<<d>>)
  BY <1>1
<1>6. d = NextCycle(P, c)
  OBVIOUS
<1> HIDE DEF d
<1>7. StoreMeans(P, c)
  BY <1>1, PoppedFollows
<1>8. /\ StoreMeans(P, d)
      /\ PathWorlds(P, d) = Worlds(P)
      /\ \A x \in FlattenedInterface(P) : \A w \in Worlds(P) :
           w \in CurrentValue(d, x).worlds <=>
             IF x \in WholeProgramInputs(P) THEN <<c.cycle + 1, x>> \in w
                                            ELSE w \in CurrentValue(c, x).worlds
  BY <1>2, <1>6, <1>7, NextCycleMeans
<1>9. PathWorlds(P, d) = PathWorlds(P, c)
  BY <1>1, <1>3, <1>8, ExitTakesAll
<1>10. ASSUME NEW w \in Worlds(P), NEW k, IsConfiguration(k), Matches(c, w, k),
              NEW next, next = ConcreteStep(P, w, k)
       PROVE  IsConfiguration(next) /\ Matches(d, w, next)
  <2> DEFINE F == FlattenedInterface(P)
             env == [x \in F |-> IF x \in WholeProgramInputs(P) THEN <<k.cycle + 1, x>> \in w
                                                                ELSE k.env[x]]
  <2>1. next = ConcreteNextCycle(P, w, k)
    BY <1>1, <1>10, StepOfPopped DEF StepAt
  <2>2. k.env \in [F -> BOOLEAN]
    BY <1>10 DEF IsConfiguration
  <2>3. next = [k EXCEPT !.cycle = @ + 1, !.label = ReturnLabel(k), !.env = env]
    <3>1. DOMAIN k.env = F
      BY <2>2
    <3> QED BY <1>10, <2>1, <3>1 DEF ConcreteNextCycle, IsConfiguration
  <2>4. \A x \in F : env[x] = IF x \in WholeProgramInputs(P) THEN <<k.cycle + 1, x>> \in w
                                                              ELSE k.env[x]
    OBVIOUS
  <2>5. env = [x \in F |-> env[x]]
    OBVIOUS
  <2> HIDE DEF env
  <2>6. env \in [F -> BOOLEAN]
    <3>1. ASSUME NEW x \in F
          PROVE  env[x] \in BOOLEAN
      <4>1. CASE x \in WholeProgramInputs(P)
        <5>1. env[x] = (<<k.cycle + 1, x>> \in w)
          BY <2>4, <4>1
        <5> QED BY <5>1
      <4>2. CASE x \notin WholeProgramInputs(P)
        BY <2>2, <2>4, <4>2
      <4> QED BY <4>1, <4>2
    <3> QED BY <2>5, <3>1
  <2>7. /\ IsConfiguration(next) /\ next.cycle = k.cycle + 1 /\ next.stack = k.stack
        /\ next.label = ReturnLabel(k) /\ next.env = env
    BY <1>10, <2>3, <2>6 DEF IsConfiguration
  <2>8. k.cycle = c.cycle /\ k.stack = c.stack /\ ReturnLabel(k) = ReturnLabel(c)
    BY <1>10, AtSameVertex
  <2>9. ASSUME NEW x \in F
        PROVE  next.env[x] <=> w \in CurrentValue(d, x).worlds
    <3>1. k.env[x] <=> w \in CurrentValue(c, x).worlds
      BY <1>10 DEF Matches
    <3>2. w \in CurrentValue(d, x).worlds <=>
             IF x \in WholeProgramInputs(P) THEN <<k.cycle + 1, x>> \in w ELSE k.env[x]
      BY <1>8, <2>8, <3>1
    <3> QED BY <2>4, <2>7, <3>2
  <2> QED BY <1>4, <2>7, <2>8, <2>9 DEF Matches
<1>11. \A w \in PathWorlds(P, c) : StepsTo(c, d, w)
  BY <1>8, <1>9, <1>10 DEF StepsTo
<1> QED BY <1>1, <1>5, <1>8, <1>9, <1>11, ReturnOneKeeps

-----------------------------------------------------------------------------
(* Calls.                                                                  *)

(* The context callee has entered the function block that c calls.         *)
CallsInto(c, callee) ==
  /\ Vertex(c).op = "call"
  /\ callee.val = c.val /\ callee.ver = c.ver /\ callee.pc = c.pc /\ callee.cycle = c.cycle
  /\ callee.stack = Append(c.stack, [scope |-> Append(Scope(c), Vertex(c).instance),
                                     ret |-> Target(CfgOf(P, Scope(c)), c.label, "CALL_TO_RETURN")])
  /\ c.stack \in Seq([scope : DOMAIN P.scopes, ret : Nat])
  /\ Append(Scope(c), Vertex(c).instance) \in DOMAIN P.scopes

(* The frame of the callee, and leaving it.                                *)
LEMMA FrameOfCall ==
  ASSUME NEW c, NEW callee, CallsInto(c, callee)
  PROVE  /\ Scope(callee) = Append(Scope(c), Vertex(c).instance)
         /\ ReturnLabel(callee) = Target(CfgOf(P, Scope(c)), c.label, "CALL_TO_RETURN")
         /\ SubSeq(callee.stack, 1, Len(callee.stack) - 1) = c.stack
<1> DEFINE top == [scope |-> Append(Scope(c), Vertex(c).instance),
                   ret |-> Target(CfgOf(P, Scope(c)), c.label, "CALL_TO_RETURN")]
<1>1. /\ top.scope = Append(Scope(c), Vertex(c).instance)
      /\ top.ret = Target(CfgOf(P, Scope(c)), c.label, "CALL_TO_RETURN")
  OBVIOUS
<1>2. callee.stack = Append(c.stack, top) /\ c.stack \in Seq([scope : DOMAIN P.scopes, ret : Nat])
  BY DEF CallsInto
<1> HIDE DEF top
<1>3. /\ Len(callee.stack) = Len(c.stack) + 1 /\ Len(c.stack) \in Nat
      /\ callee.stack[Len(callee.stack)] = top
      /\ \A i \in 1 .. Len(c.stack) : callee.stack[i] = c.stack[i]
  BY <1>2
<1>4. SubSeq(callee.stack, 1, Len(callee.stack) - 1) = c.stack
  BY <1>2, <1>3
<1> QED BY <1>1, <1>3, <1>4 DEF Scope, ReturnLabel

(* The variables of the called instance have the same values.              *)
LEMMA TrueInCallee ==
  ASSUME NEW c, NEW callee, CallsInto(c, callee), NEW w, NEW k, Matches(c, w, k),
         IsConfiguration(k)
  PROVE  TrueIn(P, Scope(callee), k) = TrueVariables(P, callee, w)
<1> DEFINE s == Scope(callee)
<1>1. s \in DOMAIN P.scopes
  BY FrameOfCall DEF CallsInto
<1>2. \A x : CurrentValue(callee, x) = CurrentValue(c, x)
  BY SameMeaning DEF CallsInto
<1> HIDE DEF s
<1>3. \A x \in CfgOf(P, s).vars : <<s, x>> \in FlattenedInterface(P)
  BY <1>1 DEF FlattenedInterface
<1>4. \A x \in CfgOf(P, s).vars : k.env[<<s, x>>] <=> w \in CurrentValue(callee, <<s, x>>).worlds
  BY <1>2, <1>3 DEF Matches
<1>5. TrueIn(P, s, k) = {x \in CfgOf(P, s).vars : w \in CurrentValue(callee, <<s, x>>).worlds}
  BY <1>4 DEF TrueIn
<1> QED BY <1>5 DEF s, TrueVariables

(* What the summary i makes of the values of c.                            *)
HasSummarized(c, callee, w, i, d) ==
  LET s == SummariesAt(P, callee)[i]
  IN  /\ d.cycle = c.cycle /\ d.label = ReturnLabel(callee) /\ d.stack = c.stack
      /\ \A x \in FlattenedInterface(P) :
           w \in CurrentValue(d, x).worlds <=>
             IF x \in WrittenVariables(s)
             THEN TrueVariables(P, callee, w) \in Effect(CfgOf(P, Scope(callee)), s).final[x]
             ELSE w \in CurrentValue(c, x).worlds

(* The j-th summary applies where the run of w stands.                     *)
Applies(callee, w, j) ==
  TrueVariables(P, callee, w)
    \in Effect(CfgOf(P, Scope(callee)), SummariesAt(P, callee)[j]).applies

(* One summary applies, and what it makes of the context follows the run.  *)
LEMMA SummaryOfCall ==
  ASSUME Faithful, NEW c, NEW callee, CallsInto(c, callee),
         P.scopes[Scope(callee)] \in DOMAIN P.summaries,
         NEW w \in Worlds(P), Follows(c, w)
  PROVE  \E i \in DOMAIN SummariesAt(P, callee) :
           /\ \A j \in DOMAIN SummariesAt(P, callee) : Applies(callee, w, j) <=> j = i
           /\ \A d : HasSummarized(c, callee, w, i, d) => Follows(d, w)
<1>1. PICK k : OnTrace(w, k) /\ IsConfiguration(k) /\ Matches(c, w, k)
  BY FollowsIff
<1>2. DOMAIN P.summaries # {} => CallIsSummarized(prog, w, k)
  <2>1. k \in RangeOf(Trace[prog][w])
    BY <1>1 DEF OnTrace, RangeOf
  <2> QED BY <2>1 DEF Faithful, SummarizedPrograms, P
<1> DEFINE s == Append(Scope(k), CfgOf(P, Scope(k)).vertices[k.label].instance)
           all == P.summaries[P.scopes[s]]
           back == <<k.cycle, Target(CfgOf(P, Scope(k)), k.label, "CALL_TO_RETURN"), k.stack>>
           final(i) == [x \in FlattenedInterface(P) |-> ValueAfter(P, s, i, k, x)]
<1>3. (CfgOf(P, Scope(k)).vertices[k.label].op = "call" /\ P.scopes[s] \in DOMAIN P.summaries) =>
        \E i \in DOMAIN all :
          /\ {j \in DOMAIN all : TrueIn(P, s, k) \in Effect(CfgOf(P, s), all[j]).applies} = {i}
          /\ back \in DOMAIN Trace[prog][w]
          /\ Trace[prog][w][back] =
               [cycle |-> k.cycle, label |-> back[2], stack |-> k.stack,
                env |-> final(i), taken |-> Trace[prog][w][back].taken]
  <2>1. CASE DOMAIN P.summaries # {}
    BY <1>2, <2>1, Zenon DEF CallIsSummarized, P
  <2>2. CASE DOMAIN P.summaries = {}
    BY <2>2
  <2> QED BY <2>1, <2>2
<1>4. /\ Scope(k) = Scope(c) /\ k.label = c.label /\ k.stack = c.stack /\ k.cycle = c.cycle
      /\ CfgOf(P, Scope(k)).vertices[k.label] = Vertex(c)
  BY <1>1, AtSameVertex
<1>5. /\ s = Scope(callee) /\ Vertex(c).op = "call"
      /\ back = <<c.cycle, ReturnLabel(callee), c.stack>>
  BY <1>4, FrameOfCall DEF CallsInto
<1>6. all = SummariesAt(P, callee)
  BY <1>5 DEF SummariesAt
<1>7. TrueIn(P, Scope(callee), k) = TrueVariables(P, callee, w)
  BY <1>1, TrueInCallee
<1>8. \A i : \A x \in FlattenedInterface(P) : final(i)[x] = ValueAfter(P, s, i, k, x)
  OBVIOUS
<1>9. \A i : final(i) = [x \in FlattenedInterface(P) |-> final(i)[x]]
  OBVIOUS
<1> HIDE DEF final
<1>10. PICK i \in DOMAIN all :
          /\ {j \in DOMAIN all : TrueIn(P, s, k) \in Effect(CfgOf(P, s), all[j]).applies} = {i}
          /\ back \in DOMAIN Trace[prog][w]
          /\ Trace[prog][w][back] =
               [cycle |-> k.cycle, label |-> back[2], stack |-> k.stack,
                env |-> final(i), taken |-> Trace[prog][w][back].taken]
  BY <1>3, <1>4, <1>5
<1>11. PICK env : env = final(i)
  OBVIOUS
<1>12. \A x \in FlattenedInterface(P) :
          env[x] = IF x \in WrittenVariables(all[i])
                   THEN TrueIn(P, s, k) \in Effect(CfgOf(P, s), all[i]).final[x]
                   ELSE k.env[x]
  BY <1>8, <1>11 DEF ValueAfter
<1>13. env \in [FlattenedInterface(P) -> BOOLEAN]
  <2>1. ASSUME NEW x \in FlattenedInterface(P)
        PROVE  env[x] \in BOOLEAN
    <3>1. CASE x \in WrittenVariables(all[i])
      <4>1. env[x] = (TrueIn(P, s, k) \in Effect(CfgOf(P, s), all[i]).final[x])
        BY <1>12, <3>1
      <4> HIDE DEF s, all
      <4> QED BY <4>1
    <3>2. CASE x \notin WrittenVariables(all[i])
      BY <1>1, <1>12, <3>2 DEF IsConfiguration
    <3> QED BY <3>1, <3>2
  <2>2. env = [x \in FlattenedInterface(P) |-> env[x]]
    BY <1>9, <1>11
  <2> QED BY <2>1, <2>2
<1>14. \A j \in DOMAIN SummariesAt(P, callee) : Applies(callee, w, j) <=> j = i
  <2> HIDE DEF s, all
  <2>1. \A j \in DOMAIN all : TrueIn(P, s, k) \in Effect(CfgOf(P, s), all[j]).applies <=> j = i
    BY <1>10
  <2> QED BY <1>5, <1>6, <1>7, <2>1 DEF Applies
<1>15. ASSUME NEW d, HasSummarized(c, callee, w, i, d)
       PROVE  Follows(d, w)
  <2> DEFINE next == Trace[prog][w][back]
  <2>1. /\ next = [cycle |-> c.cycle, label |-> ReturnLabel(callee), stack |-> c.stack,
                   env |-> env, taken |-> next.taken]
    BY <1>4, <1>5, <1>10, <1>11
  <2>2. next = Trace[prog][w][<<c.cycle, ReturnLabel(callee), c.stack>>]
    BY <1>5
  <2>3. <<c.cycle, ReturnLabel(callee), c.stack>> \in DOMAIN Trace[prog][w]
    BY <1>5, <1>10
  <2> HIDE DEF next
  <2>4. /\ next.cycle = c.cycle /\ next.label = ReturnLabel(callee) /\ next.stack = c.stack
        /\ next.env = env
    BY <2>1
  <2>5. IsConfiguration(next)
    BY <1>13, <2>1, <2>4 DEF IsConfiguration
  <2>6. OnTrace(w, next)
    <3>1. Position(next) = <<c.cycle, ReturnLabel(callee), c.stack>>
      BY <2>4 DEF Position
    <3> QED BY <2>2, <2>3, <3>1 DEF OnTrace
  <2>7. /\ d.cycle = c.cycle /\ d.label = ReturnLabel(callee) /\ d.stack = c.stack
        /\ \A x \in FlattenedInterface(P) :
             w \in CurrentValue(d, x).worlds <=>
               IF x \in WrittenVariables(SummariesAt(P, callee)[i])
               THEN TrueVariables(P, callee, w) \in
                      Effect(CfgOf(P, Scope(callee)), SummariesAt(P, callee)[i]).final[x]
               ELSE w \in CurrentValue(c, x).worlds
    BY <1>15 DEF HasSummarized
  <2>8. ASSUME NEW x \in FlattenedInterface(P)
        PROVE  next.env[x] <=> w \in CurrentValue(d, x).worlds
    <3>1. k.env[x] <=> w \in CurrentValue(c, x).worlds
      BY <1>1 DEF Matches
    <3> HIDE DEF s, all
    <3> QED BY <1>5, <1>6, <1>7, <1>12, <2>4, <2>7, <3>1
  <2>9. Matches(d, w, next)
    BY <2>4, <2>7, <2>8 DEF Matches
  <2> QED BY <2>5, <2>6, <2>9, FollowsIff
<1> QED BY <1>6, <1>10, <1>14, <1>15

(* A call that is executed: the run enters the callee, too.                *)
LEMMA EnterCallee ==
  ASSUME RunsInv, Inv', Faithful', NEW c \in explorer, Pop(c),
         NEW callee, CallsInto(c, callee), NEW d, Return(<<d>>),
         d.val = c.val, d.pc = c.pc, d.ver = c.ver, d.cycle = c.cycle, d.stack = callee.stack,
         d.label = Target(CfgOf(P, Scope(c)), c.label, "CALL")
  PROVE  RunsInv' /\ ExecutesStep
<1>1. StoreMeans(P, d) /\ PathWorlds(P, d) = PathWorlds(P, c)
  BY PoppedFollows, SameMeaning
<1>2. ASSUME NEW w, NEW k, IsConfiguration(k), Matches(c, w, k),
             NEW next, next = ConcreteStep(P, w, k)
      PROVE  IsConfiguration(next) /\ Matches(d, w, next)
  <2>1. next = Called(k, Vertex(c).instance, Target(CfgOf(P, Scope(c)), k.label, "CALL_TO_RETURN"),
                      Target(CfgOf(P, Scope(c)), k.label, "CALL"))
    BY <1>2, StepOfPopped DEF StepAt, CallsInto
  <2>2. /\ IsConfiguration(next) /\ next.cycle = k.cycle /\ next.env = k.env
        /\ next.stack = Append(k.stack,
             [scope |-> Append(Scope(k), Vertex(c).instance),
              ret |-> Target(CfgOf(P, Scope(c)), k.label, "CALL_TO_RETURN")])
        /\ next.label = Target(CfgOf(P, Scope(c)), k.label, "CALL")
    BY <1>2, <2>1 DEF IsConfiguration, Called
  <2>3. Scope(k) = Scope(c) /\ k.label = c.label /\ k.stack = c.stack
    BY <1>2, AtSameVertex
  <2>4. next.label = d.label /\ next.stack = d.stack
    BY <2>2, <2>3 DEF CallsInto
  <2> QED BY <1>2, <2>2, <2>4, MovedMatches
<1>3. \A w \in PathWorlds(P, c) : StepsTo(c, d, w)
  BY <1>2 DEF StepsTo
<1> QED BY <1>1, <1>3, ReturnOneKeeps

(* Which summaries are applied to the call.                                *)
LEMMA SummariesFound ==
  ASSUME RunsInv, NEW c, NEW callee, CallsInto(c, callee), ContextOK(P, c),
         P.scopes[Scope(callee)] \in DOMAIN P.summaries
  PROVE  /\ \A i \in DOMAIN SummariesAt(P, callee) :
              IsOwn(P, Scope(callee), SummariesAt(P, callee)[i])
         /\ FindApplicableSummaries(P, callee) =
              {i \in DOMAIN SummariesAt(P, callee) :
                 \E w \in PathWorlds(P, callee) : Applies(callee, w, i)}
<1>1. Scope(callee) \in DOMAIN P.scopes
  BY FrameOfCall DEF CallsInto
<1>2. SummariesAt(P, callee) = P.summaries[P.scopes[Scope(callee)]]
  BY DEF SummariesAt
<1>3. SummariesAreOwn(P)
  BY DEF RunsInv, Faithful, SummarizedPrograms, P
<1>4. ASSUME NEW i \in DOMAIN SummariesAt(P, callee)
      PROVE  IsOwn(P, Scope(callee), SummariesAt(P, callee)[i])
  <2>1. SummariesAt(P, callee)[i] \in RangeOf(P.summaries[P.scopes[Scope(callee)]])
    BY <1>2 DEF RangeOf
  <2> QED BY <1>1, <1>3, <2>1 DEF SummariesAreOwn
<1>5. ASSUME NEW i \in DOMAIN SummariesAt(P, callee)
      PROVE  IsSummaryApplicable(P, callee, SummariesAt(P, callee)[i]) <=>
               \E w \in PathWorlds(P, callee) : Applies(callee, w, i)
  BY <1>4, ApplicableMeans DEF Applies
<1> QED BY <1>4, <1>5 DEF FindApplicableSummaries

(* The context that is popped waits at a call.                             *)
WaitsAtCall ==
  \E c \in explorer : \E callee :
    /\ Pop(c) /\ CallsInto(c, callee) /\ Caller(callee) = c /\ callee.label = c.label
    /\ PathWorlds(P, callee) = PathWorlds(P, c)
    /\ held' = <<callee>> /\ phase' = "summarize" /\ pending' = pending
    /\ P.scopes[Scope(callee)] \in DOMAIN P.summaries
    /\ todo' = FindApplicableSummaries(P, callee)

(* A call that is summarized: the context waits at the call, and answers   *)
(* for the worlds to which a summary applies, which are all.               *)
LEMMA WaitAtCall ==
  ASSUME RunsInv, Inv', Faithful', NEW c \in explorer, Pop(c), ContextOK(P, c),
         NEW callee, CallsInto(c, callee),
         Caller(callee) = c, c.label \in DOMAIN CfgOf(P, Scope(c)).vertices,
         P.scopes[Scope(callee)] \in DOMAIN P.summaries,
         held' = <<callee>>, todo' = FindApplicableSummaries(P, callee),
         phase' = "summarize", UNCHANGED pending
  PROVE  RunsInv'
<1> DEFINE here == <<"held", 0, 1>>
           old == {<<"explorer", c, 0>>}
           new == {here}
<1>1. /\ prog' = prog /\ P' = P /\ phase = "step" /\ explorer' = explorer \ {c}
      /\ merger' = merger /\ succeeding' = succeeding /\ held = <<>> /\ pending' = pending
  <2>1. ControlInv
    BY DEF RunsInv, Inv
  <2>2. held = <<>>
    BY <2>1, PopOK
  <2> QED BY <2>2 DEF Pop, P
<1>2. old \in SUBSET Places
  BY PlaceForms
<1>3. DOMAIN held' = {1} /\ held'[1] = callee /\ DOMAIN held = {}
  BY <1>1
<1>4. Places' = (Places \ old) \cup new
  <2>1. ASSUME NEW a
        PROVE  a \in Places' <=> a \in (Places \ old) \/ a \in new
    <3>1. a \in new <=> \E i \in DOMAIN held' : a = <<"held", 0, i>>
      BY <1>3
    <3>2. (\E d \in explorer' : a = <<"explorer", d, 0>>) <=>
            (\E d \in explorer : a = <<"explorer", d, 0>>) /\ a \notin old
      BY <1>1
    <3>3. a \in Places' <=>
            \/ \E d \in explorer' : a = <<"explorer", d, 0>>
            \/ \E d \in succeeding : a = <<"succeeding", d, 0>>
            \/ \E m \in DOMAIN merger : \E i \in DOMAIN merger[m] : a = <<"merger", m, i>>
            \/ \E i \in DOMAIN held' : a = <<"held", 0, i>>
            \/ \E i \in DOMAIN pending : a = <<"pending", 0, i>>
      BY <1>1, NextPlaces
    <3>4. a \in Places <=>
            \/ \E d \in explorer : a = <<"explorer", d, 0>>
            \/ \E d \in succeeding : a = <<"succeeding", d, 0>>
            \/ \E m \in DOMAIN merger : \E i \in DOMAIN merger[m] : a = <<"merger", m, i>>
            \/ \E i \in DOMAIN pending : a = <<"pending", 0, i>>
      BY <1>3, PlaceForms
    <3>5. a \in old => a = <<"explorer", c, 0>>
      OBVIOUS
    <3> HIDE DEF old, new
    <3> QED BY <3>1, <3>2, <3>3, <3>4, <3>5
  <2> HIDE DEF old, new
  <2> QED BY <2>1
<1>5. ASSUME NEW a \in Places \ old
      PROVE  /\ ContextAt(a)' = ContextAt(a)
             /\ a[1] = "held" => phase # "summarize" /\ phase' # "summarize"
  <2>1. a \in Places
    BY <1>5
  <2>2. CASE \E d \in explorer : a = <<"explorer", d, 0>>
    BY <2>2, ContextForms, NextPlaces
  <2>3. CASE \E d \in succeeding : a = <<"succeeding", d, 0>>
    BY <2>3, ContextForms, NextPlaces
  <2>4. CASE \E m \in DOMAIN merger : \E i \in DOMAIN merger[m] : a = <<"merger", m, i>>
    BY <1>1, <2>4, ContextForms, NextPlaces
  <2>5. CASE \E i \in DOMAIN pending : a = <<"pending", 0, i>>
    BY <1>1, <2>5, ContextForms, NextPlaces
  <2> QED BY <1>3, <2>1, <2>2, <2>3, <2>4, <2>5, PlaceForms
<1>6. /\ ContextAt(<<"explorer", c, 0>>) = c /\ ContextAt(here)' = callee
      /\ Share(<<"explorer", c, 0>>) = PathWorlds(P, c)
  BY <1>1, <1>3, ContextForms, NextPlaces, PlainPlace
<1>7. StandsFor(here)' = c
  BY <1>6 DEF StandsFor, Caller
<1>8. /\ StoreMeans(P, callee) /\ PathWorlds(P, callee) = PathWorlds(P, c)
  BY PoppedFollows, SameMeaning DEF CallsInto
<1>9. \A w \in PathWorlds(P, c) : w \in Worlds(P) /\ Follows(c, w)
  BY PoppedFollows
<1>10. Share(here)' = SharesApplied(P, callee, todo')
  BY <1>1, <1>6, NextHeldShare
<1>11. ASSUME NEW w
       PROVE  w \in Share(here)' <=> w \in PathWorlds(P, c)
  <2>1. w \in Share(here)' <=>
          w \in PathWorlds(P, callee) /\ \E k \in todo' : Applies(callee, w, k)
    BY <1>10 DEF SharesApplied, Applies
  <2>2. ASSUME w \in PathWorlds(P, c)
        PROVE  \E k \in todo' : Applies(callee, w, k)
    <3>1. PICK i \in DOMAIN SummariesAt(P, callee) :
            \A j \in DOMAIN SummariesAt(P, callee) : Applies(callee, w, j) <=> j = i
      BY <1>9, <2>2, SummaryOfCall DEF RunsInv
    <3>2. i \in FindApplicableSummaries(P, callee)
      BY <1>8, <2>2, <3>1, SummariesFound
    <3> QED BY <3>1, <3>2
  <2> QED BY <1>8, <2>1, <2>2
<1>12. CallIsHeld'
  <2>1. Caller(held'[1]) = c
    BY <1>3
  <2>2. /\ held'[1].stack = Append(c.stack,
             [scope |-> Append(Scope(c), Vertex(c).instance),
              ret |-> Target(CfgOf(P, Scope(c)), c.label, "CALL_TO_RETURN")])
        /\ Vertex(c).op = "call"
    BY <1>3 DEF CallsInto
  <2> QED BY <1>1, <2>1, <2>2 DEF CallIsHeld, Vertex, Caller
<1>13. \A a \in new :
         /\ StoreMeans(P, ContextAt(a)')
         /\ \A w \in PathWorlds(P, ContextAt(a)') : Follows(StandsFor(a)', w)
  BY <1>6, <1>7, <1>8, <1>9
<1>14. \A w \in Worlds(P) : \A a \in old :
         (\A b \in Places : w \in Share(b) <=> b = a) =>
            \E b \in new : \A e \in new : w \in Share(e)' <=> e = b
  <2> SUFFICES ASSUME NEW w \in Worlds(P), NEW a \in old,
                      \A b \in Places : w \in Share(b) <=> b = a
               PROVE  \E b \in new : \A e \in new : w \in Share(e)' <=> e = b
    OBVIOUS
  <2>1. w \in Share(here)'
    BY <1>2, <1>6, <1>11
  <2> QED BY <2>1
<1>15. \A w \in Worlds(P) : \A b \in new : w \in Share(b)' => \E a \in old : w \in Share(a)
  BY <1>6, <1>11
<1> HIDE DEF old, new, here
<1>16. phase # "done"
  BY <1>1
<1> QED BY <1>1, <1>2, <1>4, <1>5, <1>12, <1>13, <1>14, <1>15, <1>16, StepKeeps

(* Executor::visit of a call: the callee is entered or waited for.         *)
LEMMA VisitCallInstructionRuns ==
  ASSUME RunsInv, Inv', Faithful', VisitCallInstruction
  PROVE  RunsInv' /\ (ExecutesStep \/ WaitsAtCall)
<1> DEFINE Ret(c) == Target(CfgOf(P, Scope(c)), c.label, "CALL_TO_RETURN")
           Callee(c) == [c EXCEPT !.stack =
                           Append(@, [scope |-> Append(Scope(c), Vertex(c).instance),
                                      ret |-> Ret(c)])]
           Entry(c) == Target(CfgOf(P, Scope(c)), c.label, "CALL")
<1>1. PICK c \in explorer :
        /\ Pop(c)
        /\ Vertex(c).op = "call"
        /\ \/ Return(<<[Callee(c) EXCEPT !.label = Entry(c)]>>)
           \/ /\ FindApplicableSummaries(P, Callee(c)) # {}
              /\ held' = <<Callee(c)>>
              /\ todo' = FindApplicableSummaries(P, Callee(c))
              /\ phase' = "summarize"
              /\ UNCHANGED pending
  BY Zenon DEF VisitCallInstruction
<1> DEFINE callee == Callee(c)
           l == Entry(c)
           r == Ret(c)
           d == [callee EXCEPT !.label = l]
<1>2. Pop(c) /\ Vertex(c).op = "call"
  BY <1>1
<1>3. \/ Return(<<d>>)
      \/ /\ FindApplicableSummaries(P, callee) # {}
         /\ held' = <<callee>>
         /\ todo' = FindApplicableSummaries(P, callee)
         /\ phase' = "summarize"
         /\ UNCHANGED pending
  BY <1>1, Zenon
<1>4. /\ ContextOK(P, c) /\ WellFormedVertex(P, Scope(c), c.label) /\ AtVertex(P, c)
  BY <1>2, PoppedVertex
<1>5. callee = [c EXCEPT !.stack = Append(@, [scope |-> Append(Scope(c), Vertex(c).instance),
                                              ret |-> r])]
  BY Zenon
<1>6. r = Target(CfgOf(P, Scope(c)), c.label, "CALL_TO_RETURN")
      /\ l = Target(CfgOf(P, Scope(c)), c.label, "CALL")
  OBVIOUS
<1> HIDE DEF callee, l, r, Callee, Entry, Ret
<1>7. CallsInto(c, callee)
  <2>1. /\ callee.val = c.val /\ callee.ver = c.ver /\ callee.pc = c.pc /\ callee.cycle = c.cycle
        /\ callee.stack = Append(c.stack, [scope |-> Append(Scope(c), Vertex(c).instance),
                                           ret |-> r])
    BY <1>4, <1>5 DEF ContextOK
  <2>2. c.stack \in Seq([scope : DOMAIN P.scopes, ret : Nat])
    BY <1>4 DEF ContextOK, StackOK
  <2>3. Append(Scope(c), Vertex(c).instance) \in DOMAIN P.scopes
    BY <1>2, <1>4 DEF WellFormedVertex, Vertex
  <2> QED BY <1>2, <1>6, <2>1, <2>2, <2>3 DEF CallsInto
<1>8. CASE Return(<<d>>)
  <2>1. /\ d.val = c.val /\ d.pc = c.pc /\ d.ver = c.ver /\ d.cycle = c.cycle
        /\ d.stack = callee.stack /\ d.label = l
    BY <1>4, <1>5 DEF ContextOK
  <2> HIDE DEF d
  <2> QED BY <1>2, <1>6, <1>7, <1>8, <2>1, EnterCallee
<1>9. CASE /\ FindApplicableSummaries(P, callee) # {}
           /\ held' = <<callee>>
           /\ todo' = FindApplicableSummaries(P, callee)
           /\ phase' = "summarize"
           /\ UNCHANGED pending
  <2>1. P.scopes[Scope(callee)] \in DOMAIN P.summaries
    <3>1. DOMAIN SummariesAt(P, callee) # {}
      BY <1>9 DEF FindApplicableSummaries
    <3> QED BY <3>1 DEF SummariesAt
  <2>2. Caller(callee) = c
    <3>1. SubSeq(callee.stack, 1, Len(callee.stack) - 1) = c.stack
      BY <1>7, FrameOfCall
    <3>2. [callee EXCEPT !.stack = c.stack] = c
      BY <1>4, <1>5 DEF ContextOK
    <3>3. Caller(callee) = [callee EXCEPT !.stack = c.stack]
      BY <3>1 DEF Caller
    <3> QED BY <3>2, <3>3
  <2>3. c.label \in DOMAIN CfgOf(P, Scope(c)).vertices
    BY <1>4 DEF AtVertex
  <2>4. RunsInv'
    BY <1>2, <1>4, <1>7, <1>9, <2>1, <2>2, <2>3, WaitAtCall
  <2>5. callee.label = c.label
    BY <1>4, <1>5 DEF ContextOK
  <2>6. PathWorlds(P, callee) = PathWorlds(P, c)
    BY <1>7, SameMeaning DEF CallsInto
  <2>7. WaitsAtCall
    BY <1>2, <1>7, <1>9, <2>1, <2>2, <2>5, <2>6 DEF WaitsAtCall
  <2> QED BY <2>4, <2>7
<1> QED BY <1>3, <1>8, <1>9

-----------------------------------------------------------------------------
(* The loop over the applicable summaries.                                 *)

(* The context that waits and the call at which it does.                   *)
LEMMA WaitingContext ==
  ASSUME RunsInv, phase = "summarize", NEW c, c = held[1], NEW caller, caller = Caller(c)
  PROVE  /\ <<"held", 0, 1>> \in Places /\ ContextAt(<<"held", 0, 1>>) = c
         /\ DOMAIN held = {1} /\ c \in Live
         /\ ContextOK(P, c) /\ StoreOK(P, version, c) /\ StoreMeans(P, c) /\ c.cycle \in Nat
         /\ Scope(c) \in DOMAIN P.scopes
         /\ CallsInto(caller, c) /\ caller.stack = SubSeq(c.stack, 1, Len(c.stack) - 1)
         /\ \A w \in PathWorlds(P, c) : w \in Worlds(P) /\ Follows(caller, w)
<1>1. /\ IsSeq(held) /\ Len(held) = 1 /\ held # <<>> /\ cycle \in Nat /\ Depth(c) > 1
  <2>1. EngineOK /\ PhasesOK
    BY DEF RunsInv, Inv, ControlInv
  <2>2. IsSeq(held) /\ Len(held) = 1 /\ Depth(c) > 1
    BY <2>1 DEF EngineOK, PhasesOK
  <2>3. cycle \in Nat
    BY <2>1, CycleBoundAssumption DEF EngineOK
  <2>4. held # <<>>
    BY <2>2
  <2> QED BY <2>2, <2>3, <2>4
<1>2. DOMAIN held = {1} /\ c \in RangeOf(held)
  BY <1>1, NonemptySeq DEF IsSeq
<1>3. <<"held", 0, 1>> \in Places /\ ContextAt(<<"held", 0, 1>>) = c
  BY <1>2, PlaceForms, ContextForms
<1>4. c \in Live /\ ContextOK(P, c) /\ StoreOK(P, version, c) /\ StoreMeans(P, c) /\ c.cycle = cycle
  BY <1>2 DEF RunsInv, Inv, ControlInv, ContextsOK, StoresOK, CyclesOK, Live
<1>5. WellFormed(P)
  BY ProgramOK DEF RunsInv, Inv, ControlInv
<1>6. Scope(c) \in DOMAIN P.scopes /\ DOMAIN c.stack = 1 .. Depth(c) /\ Depth(c) \in Nat
  BY <1>4, <1>5, FramesOfContext
<1>7. /\ caller.val = c.val /\ caller.ver = c.ver /\ caller.pc = c.pc /\ caller.cycle = c.cycle
      /\ caller.stack = SubSeq(c.stack, 1, Len(c.stack) - 1) /\ caller.label = c.label
  BY <1>4 DEF Caller, ContextOK
<1>8. StandsFor(<<"held", 0, 1>>) = caller
  BY <1>3 DEF StandsFor
<1>9. \A w \in PathWorlds(P, c) : w \in Worlds(P) /\ Follows(caller, w)
  <2>1. \A w \in PathWorlds(P, c) : Follows(caller, w)
    BY <1>3, <1>8 DEF RunsInv, ContextsFollowRuns
  <2>2. \A w \in PathWorlds(P, c) : w \in Worlds(P)
    BY SatisfyingAt DEF PathWorlds
  <2> QED BY <2>1, <2>2
<1>10. /\ Vertex(caller).op = "call"
       /\ c.stack = Append(caller.stack,
            [scope |-> Append(Scope(caller), Vertex(caller).instance),
             ret |-> Target(CfgOf(P, Scope(caller)), caller.label, "CALL_TO_RETURN")])
  BY DEF RunsInv, CallIsHeld, Vertex
<1>11. caller.stack \in Seq([scope : DOMAIN P.scopes, ret : Nat])
  <2>1. c.stack \in Seq([scope : DOMAIN P.scopes, ret : Nat])
    BY <1>4 DEF ContextOK, StackOK
  <2>2. Len(c.stack) = Depth(c) /\ Depth(c) - 1 \in Nat
    BY <1>1, <1>6 DEF Depth
  <2>3. PICK S, m : S = [scope : DOMAIN P.scopes, ret : Nat] /\ m = Len(c.stack) - 1
    OBVIOUS
  <2>4. c.stack \in Seq(S) /\ m \in Nat /\ m <= Len(c.stack)
    BY <2>1, <2>2, <2>3
  <2>5. SubSeq(c.stack, 1, m) \in Seq(S)
    BY <2>4, SubSeqProperties
  <2> QED BY <1>7, <2>3, <2>5
<1>12. Append(Scope(caller), Vertex(caller).instance) \in DOMAIN P.scopes
  <2> DEFINE top == [scope |-> Append(Scope(caller), Vertex(caller).instance),
                     ret |-> Target(CfgOf(P, Scope(caller)), caller.label, "CALL_TO_RETURN")]
  <2>1. c.stack = Append(caller.stack, top) /\ top.scope = Append(Scope(caller), Vertex(caller).instance)
    BY <1>10
  <2> HIDE DEF top
  <2>2. c.stack[Len(c.stack)] = top
    BY <1>11, <2>1
  <2> QED BY <1>6, <2>1, <2>2 DEF Scope
<1>13. CallsInto(caller, c)
  BY <1>7, <1>10, <1>11, <1>12 DEF CallsInto
<1> QED BY <1>1, <1>2, <1>3, <1>4, <1>6, <1>7, <1>9, <1>13

(* What a summary makes of the waiting context.                            *)
LEMMA AppliedMeans ==
  ASSUME RunsInv, phase = "summarize", NEW c, c = held[1], NEW k \in DOMAIN SummariesAt(P, c),
         NEW s, s = SummariesAt(P, c)[k],
         NEW a, a = ApplySummary(P, version, c, s),
         NEW d, d.val = a.val, d.pc = a.pc, d.ver = a.ver, d.cycle = c.cycle,
         d.label = ReturnLabel(c), d.stack = SubSeq(c.stack, 1, Len(c.stack) - 1),
         NEW caller, caller = Caller(c)
  PROVE  /\ StoreMeans(P, d)
         /\ \A w : w \in PathWorlds(P, d) <=> w \in PathWorlds(P, c) /\ Applies(c, w, k)
         /\ \A w \in Worlds(P) : HasSummarized(caller, c, w, k, d)
<1>1. /\ ContextOK(P, c) /\ StoreOK(P, version, c) /\ StoreMeans(P, c) /\ c.cycle \in Nat
      /\ Scope(c) \in DOMAIN P.scopes /\ CallsInto(caller, c)
      /\ caller.stack = SubSeq(c.stack, 1, Len(c.stack) - 1)
  BY WaitingContext
<1>2. /\ WellFormedSummaries(P) /\ ReferencesResolve(P) /\ version \in [FlattenedInterface(P) -> Nat]
  BY CodeAssumption DEF RunsInv, Inv, ControlInv, EngineOK, P
<1> DEFINE f == P.scopes[Scope(c)]
<1>3. f \in DOMAIN P.summaries /\ k \in DOMAIN P.summaries[f] /\ s = P.summaries[f][k]
  BY SummariesOfCallee
<1>4. IsOwn(P, Scope(c), s)
  <2>1. SummariesAreOwn(P)
    BY DEF RunsInv, Faithful, SummarizedPrograms, P
  <2>2. s \in RangeOf(P.summaries[P.scopes[Scope(c)]])
    BY <1>3 DEF RangeOf
  <2> QED BY <1>1, <1>3, <2>1, <2>2 DEF SummariesAreOwn
<1> HIDE DEF f
<1> DEFINE h == CfgOf(P, Scope(c))
<1>5. /\ StoreMeans(P, a)
      /\ PathWorlds(P, a) =
           {w \in PathWorlds(P, c) : TrueVariables(P, c, w) \in Effect(h, s).applies}
      /\ \A w \in Worlds(P) : \A x \in FlattenedInterface(P) :
           w \in CurrentValue(a, x).worlds <=>
             IF x \in WrittenVariables(s)
             THEN TrueVariables(P, c, w) \in Effect(h, s).final[x]
             ELSE w \in CurrentValue(c, x).worlds
  <2>1. h = CfgOf(P, Scope(c))
    OBVIOUS
  <2> HIDE DEF h
  <2> QED BY <1>1, <1>2, <1>3, <1>4, <2>1, ApplyMeans
<1>6. ContextOK(P, a) /\ a.cycle = c.cycle /\ a.stack = c.stack
  BY <1>1, <1>2, ApplySummaryOK
<1>8. /\ StoreMeans(P, d) /\ PathWorlds(P, d) = PathWorlds(P, a)
      /\ \A x : CurrentValue(d, x) = CurrentValue(a, x)
  <2>1. StoreMeans(P, a)
    BY <1>5
  <2>2. d.val = a.val /\ d.pc = a.pc /\ d.ver = a.ver /\ d.cycle = a.cycle
    BY <1>6
  <2>3. (StoreMeans(P, a) => StoreMeans(P, d)) /\ PathWorlds(P, d) = PathWorlds(P, a)
    BY <2>2, SameMeaning, Zenon
  <2>4. \A x : CurrentValue(d, x) = CurrentValue(a, x)
    BY <2>2 DEF CurrentValue, CurrentName
  <2> QED BY <2>1, <2>3, <2>4
<1>9. \A w : w \in PathWorlds(P, d) <=> w \in PathWorlds(P, c) /\ Applies(c, w, k)
  <2>1. \A w : Applies(c, w, k) <=> TrueVariables(P, c, w) \in Effect(h, s).applies
    BY DEF Applies
  <2>2. PathWorlds(P, d) =
          {w \in PathWorlds(P, c) : TrueVariables(P, c, w) \in Effect(h, s).applies}
    BY <1>5, <1>8
  <2> HIDE DEF h
  <2> QED BY <2>1, <2>2
<1>10. \A x : CurrentValue(caller, x) = CurrentValue(c, x)
  <2>1. caller.val = c.val /\ caller.ver = c.ver /\ caller.cycle = c.cycle
    BY <1>1 DEF CallsInto
  <2> QED BY <2>1 DEF CurrentValue, CurrentName
<1>11. caller.cycle = c.cycle
  BY <1>1 DEF CallsInto
<1>12. ASSUME NEW w \in Worlds(P)
       PROVE  HasSummarized(caller, c, w, k, d)
  <2>1. d.cycle = caller.cycle /\ d.label = ReturnLabel(c) /\ d.stack = caller.stack
    BY <1>1, <1>11
  <2>2. \A x \in FlattenedInterface(P) :
          w \in CurrentValue(d, x).worlds <=>
            IF x \in WrittenVariables(s)
            THEN TrueVariables(P, c, w) \in Effect(h, s).final[x]
            ELSE w \in CurrentValue(caller, x).worlds
    <3> HIDE DEF h
    <3> QED BY <1>5, <1>8, <1>10
  <2> QED BY <2>1, <2>2, Zenon DEF HasSummarized
<1> QED BY <1>8, <1>9, <1>12

(* One applicable summary is applied.                                      *)
LEMMA ApplyNextSummaryRuns ==
  ASSUME RunsInv, Inv', Faithful', ApplyNextSummary
  PROVE  RunsInv'
<1> DEFINE Summary(c, k) == SummariesAt(P, c)[k]
           Applied(c, k) == ApplySummary(P, version, c, Summary(c, k))
           LeaveCall(c, d) == [d EXCEPT !.label = ReturnLabel(c),
                                        !.stack = SubSeq(@, 1, Len(@) - 1)]
<1>1. PICK k \in todo :
        /\ pending' = Append(pending, LeaveCall(held[1], Applied(held[1], k)))
        /\ todo' = todo \ {k}
        /\ phase' = IF todo = {k} THEN "dispatch" ELSE phase
        /\ held' = IF todo = {k} THEN <<>> ELSE held
  BY Zenon DEF ApplyNextSummary
<1>2. PICK c : c = held[1]
  OBVIOUS
<1> DEFINE s == Summary(c, k)
           a == Applied(c, k)
           d == LeaveCall(c, a)
<1>3. pending' = Append(pending, d)
  BY <1>1, <1>2
<1>4. /\ s = SummariesAt(P, c)[k] /\ a = ApplySummary(P, version, c, s)
      /\ d = [a EXCEPT !.label = ReturnLabel(c), !.stack = SubSeq(@, 1, Len(@) - 1)]
  BY Zenon
<1> HIDE DEF s, a, d, Summary, Applied, LeaveCall
<1>5. PICK caller : caller = Caller(c)
  OBVIOUS
<1>6. /\ prog' = prog /\ P' = P /\ phase = "summarize" /\ explorer' = explorer
      /\ merger' = merger /\ succeeding' = succeeding
  BY DEF ApplyNextSummary, P
<1>7. /\ IsSeq(pending) /\ todo \subseteq DOMAIN SummariesAt(P, c)
  BY <1>2, <1>6 DEF RunsInv, Inv, ControlInv, EngineOK, PhasesOK
<1>8. /\ <<"held", 0, 1>> \in Places /\ ContextAt(<<"held", 0, 1>>) = c
      /\ DOMAIN held = {1} /\ StoreMeans(P, c) /\ CallsInto(caller, c)
      /\ \A w \in PathWorlds(P, c) : w \in Worlds(P) /\ Follows(caller, w)
  BY <1>2, <1>5, <1>6, WaitingContext
<1>9. /\ StoreMeans(P, d)
      /\ \A w : w \in PathWorlds(P, d) <=> w \in PathWorlds(P, c) /\ Applies(c, w, k)
      /\ \A w \in Worlds(P) : HasSummarized(caller, c, w, k, d)
  <2>1. k \in DOMAIN SummariesAt(P, c)
    BY <1>1, <1>7
  <2>2. ContextOK(P, a) /\ a.cycle = c.cycle /\ a.stack = c.stack
    <3>1. /\ WellFormedSummaries(P) /\ version \in [FlattenedInterface(P) -> Nat]
      BY CodeAssumption DEF RunsInv, Inv, ControlInv, EngineOK, P
    <3>2. ContextOK(P, c)
      BY <1>2, <1>6, WaitingContext
    <3> QED BY <1>4, <2>1, <3>1, <3>2, ApplySummaryOK
  <2>3. /\ d.val = a.val /\ d.pc = a.pc /\ d.ver = a.ver /\ d.cycle = c.cycle
        /\ d.label = ReturnLabel(c) /\ d.stack = SubSeq(c.stack, 1, Len(c.stack) - 1)
    BY <1>4, <2>2 DEF ContextOK
  <2>4. s = SummariesAt(P, c)[k] /\ a = ApplySummary(P, version, c, s)
    BY <1>4
  <2> QED BY <1>2, <1>5, <1>6, <2>1, <2>3, <2>4, AppliedMeans
<1>27. PICK n : n = Len(pending)
  OBVIOUS
<1> DEFINE here == <<"held", 0, 1>>
           gone == <<"pending", 0, n + 1>>
           old == {here}
           new == {gone} \cup (IF todo = {k} THEN {} ELSE {here})
<1>10. /\ n \in Nat /\ DOMAIN pending = 1 .. n /\ DOMAIN pending' = 1 .. n + 1
       /\ pending'[n + 1] = d /\ \A i \in 1 .. n : pending'[i] = pending[i]
  BY <1>3, <1>7, <1>27 DEF IsSeq
<1>11. P.scopes[Scope(c)] \in DOMAIN P.summaries
  BY <1>1, <1>7 DEF SummariesAt
<1>12. ASSUME NEW w \in PathWorlds(P, c)
       PROVE  \E i \in DOMAIN SummariesAt(P, c) :
                /\ \A j \in DOMAIN SummariesAt(P, c) : Applies(c, w, j) <=> j = i
                /\ \A e : HasSummarized(caller, c, w, i, e) => Follows(e, w)
  BY <1>8, <1>11, SummaryOfCall DEF RunsInv
<1>13. \A w \in PathWorlds(P, d) : Follows(d, w)
  <2> SUFFICES ASSUME NEW w \in PathWorlds(P, d)
               PROVE  Follows(d, w)
    OBVIOUS
  <2>1. w \in PathWorlds(P, c) /\ Applies(c, w, k) /\ w \in Worlds(P)
    BY <1>8, <1>9
  <2>2. PICK i \in DOMAIN SummariesAt(P, c) :
          /\ \A j \in DOMAIN SummariesAt(P, c) : Applies(c, w, j) <=> j = i
          /\ \A e : HasSummarized(caller, c, w, i, e) => Follows(e, w)
    BY <1>12, <2>1
  <2>3. i = k
    BY <1>1, <1>7, <2>1, <2>2
  <2> QED BY <1>9, <2>1, <2>2, <2>3
<1>14. old \in SUBSET Places
  BY <1>8
<1>15. DOMAIN held' = IF todo = {k} THEN {} ELSE {1}
  BY <1>1, <1>8
<1>16. Places' = (Places \ old) \cup new
  <2>1. ASSUME NEW b
        PROVE  b \in Places' <=> b \in (Places \ old) \/ b \in new
    <3>1. (\E i \in DOMAIN held' : b = <<"held", 0, i>>) <=> todo # {k} /\ b = here
      BY <1>15
    <3>2. (\E i \in DOMAIN held : b = <<"held", 0, i>>) <=> b = here
      BY <1>8
    <3>3. (\E i \in DOMAIN pending' : b = <<"pending", 0, i>>) <=>
            b = gone \/ \E i \in DOMAIN pending : b = <<"pending", 0, i>>
      BY <1>10
    <3>4. b \in new <=> b = gone \/ (todo # {k} /\ b = here)
      OBVIOUS
    <3>5. b \in Places' <=>
            \/ \E e \in explorer : b = <<"explorer", e, 0>>
            \/ \E e \in succeeding : b = <<"succeeding", e, 0>>
            \/ \E m \in DOMAIN merger : \E i \in DOMAIN merger[m] : b = <<"merger", m, i>>
            \/ \E i \in DOMAIN held' : b = <<"held", 0, i>>
            \/ \E i \in DOMAIN pending' : b = <<"pending", 0, i>>
      BY <1>6, NextPlaces
    <3>6. b = gone => b # here
      OBVIOUS
    <3>7. b = here => /\ ~ \E e \in explorer : b = <<"explorer", e, 0>>
                      /\ ~ \E e \in succeeding : b = <<"succeeding", e, 0>>
                      /\ ~ \E m \in DOMAIN merger : \E i \in DOMAIN merger[m] : b = <<"merger", m, i>>
                      /\ ~ \E i \in DOMAIN pending : b = <<"pending", 0, i>>
      OBVIOUS
    <3>8. b \in old <=> b = here
      OBVIOUS
    <3> HIDE DEF old, new, here, gone
    <3> QED BY <3>1, <3>2, <3>3, <3>4, <3>5, <3>6, <3>7, <3>8, PlaceForms
  <2> HIDE DEF old, new
  <2> QED BY <2>1
<1>17. ASSUME NEW b \in Places \ old
       PROVE  /\ ContextAt(b)' = ContextAt(b)
              /\ b[1] = "held" => phase # "summarize" /\ phase' # "summarize"
  <2>1. b \in Places /\ b # here
    BY <1>17
  <2>2. CASE \E e \in explorer : b = <<"explorer", e, 0>>
    BY <2>2, ContextForms, NextPlaces
  <2>3. CASE \E e \in succeeding : b = <<"succeeding", e, 0>>
    BY <2>3, ContextForms, NextPlaces
  <2>4. CASE \E m \in DOMAIN merger : \E i \in DOMAIN merger[m] : b = <<"merger", m, i>>
    BY <1>6, <2>4, ContextForms, NextPlaces
  <2>5. CASE \E i \in DOMAIN pending : b = <<"pending", 0, i>>
    BY <1>10, <2>5, ContextForms, NextPlaces
  <2>6. ~ \E i \in DOMAIN held : b = <<"held", 0, i>>
    BY <1>8, <2>1
  <2> QED BY <2>1, <2>2, <2>3, <2>4, <2>5, <2>6, PlaceForms
<1>18. /\ ContextAt(gone)' = d /\ StandsFor(gone)' = d /\ Share(gone)' = PathWorlds(P, d)
  <2>1. ContextAt(gone)' = d
    BY <1>10, NextPlaces
  <2>2. gone[1] # "held"
    OBVIOUS
  <2> HIDE DEF gone
  <2> QED BY <1>6, <2>1, <2>2, NextPlainPlace
<1>19. ASSUME todo # {k}
       PROVE  /\ ContextAt(here)' = c /\ StandsFor(here)' = caller
              /\ Share(here)' = SharesApplied(P, c, todo') /\ CallIsHeld'
  <2>1. phase' = phase /\ held' = held
    BY <1>1, <1>19
  <2>2. ContextAt(here)' = c
    BY <1>2, <2>1, NextPlaces
  <2>3. StandsFor(here)' = caller
    BY <1>5, <1>6, <2>1, <2>2 DEF StandsFor, Caller
  <2>4. Share(here)' = SharesApplied(P, c, todo')
    BY <1>6, <2>1, <2>2, NextHeldShare
  <2>5. CallIsHeld'
    BY <1>6, <2>1 DEF RunsInv, CallIsHeld
  <2> QED BY <2>2, <2>3, <2>4, <2>5
<1>20. CallIsHeld'
  <2>1. CASE todo = {k}
    BY <1>1, <2>1 DEF CallIsHeld
  <2> QED BY <1>19, <2>1
<1>21. \A b \in new :
         /\ StoreMeans(P, ContextAt(b)')
         /\ \A w \in PathWorlds(P, ContextAt(b)') : Follows(StandsFor(b)', w)
  <2> SUFFICES ASSUME NEW b \in new
               PROVE  /\ StoreMeans(P, ContextAt(b)')
                      /\ \A w \in PathWorlds(P, ContextAt(b)') : Follows(StandsFor(b)', w)
    OBVIOUS
  <2>1. CASE b = gone
    BY <1>9, <1>13, <1>18, <2>1
  <2>2. CASE b = here /\ todo # {k}
    BY <1>8, <1>19, <2>2
  <2> QED BY <2>1, <2>2
<1>22. Share(here) = SharesApplied(P, c, todo)
  BY <1>6, <1>8, HeldShare
<1>23. \A w, u : w \in SharesApplied(P, c, u) <=>
         w \in PathWorlds(P, c) /\ \E j \in u : Applies(c, w, j)
  BY DEF SharesApplied, Applies
<1>24. ASSUME NEW w \in Worlds(P), w \in Share(here)
       PROVE  \E b \in new : \A e \in new : w \in Share(e)' <=> e = b
  <2>1. w \in PathWorlds(P, c) /\ \E j \in todo : Applies(c, w, j)
    BY <1>22, <1>23, <1>24
  <2>2. PICK i \in DOMAIN SummariesAt(P, c) :
          \A j \in DOMAIN SummariesAt(P, c) : Applies(c, w, j) <=> j = i
    BY <1>12, <2>1
  <2>3. i \in todo /\ (w \in PathWorlds(P, d) <=> i = k)
    BY <1>1, <1>7, <1>9, <2>1, <2>2
  <2>4. todo # {k} => (w \in Share(here)' <=> i # k)
    BY <1>1, <1>7, <1>19, <1>23, <2>1, <2>2, <2>3
  <2>5. w \in Share(gone)' <=> i = k
    BY <1>18, <2>3
  <2>6. CASE i = k
    <3>1. \A e \in new : w \in Share(e)' <=> e = gone
      BY <2>4, <2>5, <2>6
    <3> QED BY <3>1
  <2>7. CASE i # k
    <3>1. todo # {k}
      BY <2>3, <2>7
    <3>2. here \in new /\ \A e \in new : w \in Share(e)' <=> e = here
      BY <2>4, <2>5, <2>7, <3>1
    <3> QED BY <3>2
  <2> QED BY <2>6, <2>7
<1>25. \A w \in Worlds(P) : \A b \in old :
         (\A e \in Places : w \in Share(e) <=> e = b) =>
            \E b2 \in new : \A e \in new : w \in Share(e)' <=> e = b2
  BY <1>8, <1>24
<1>26. ASSUME NEW w \in Worlds(P), NEW b \in new, w \in Share(b)'
       PROVE  \E e \in old : w \in Share(e)
  <2>1. CASE b = gone
    BY <1>1, <1>9, <1>18, <1>22, <1>23, <1>26, <2>1
  <2>2. CASE b = here /\ todo # {k}
    BY <1>1, <1>19, <1>22, <1>23, <1>26, <2>2
  <2> QED BY <2>1, <2>2
<1> HIDE DEF old, new, here, gone
<1>28. phase # "done"
  BY <1>6
<1> QED BY <1>6, <1>14, <1>16, <1>17, <1>20, <1>21, <1>25, <1>26, <1>28, StepKeeps

-----------------------------------------------------------------------------
(* Merging the first two contexts of a merge point.                        *)

(* The merged context stands for the runs of both.                         *)
LEMMA MergedFollows ==
  ASSUME RunsInv, phase = "merge", Len(held) > 1,
         NEW c1, c1 = held[1], NEW c2, c2 = held[2],
         NEW d, d = Merge(P, version, c1, c2)
  PROVE  /\ StoreMeans(P, d)
         /\ PathWorlds(P, d) = PathWorlds(P, c1) \cup PathWorlds(P, c2)
         /\ \A w \in PathWorlds(P, d) : Follows(d, w)
         /\ Position(d) = Position(c1) /\ Position(d) = Position(c2)
<1>1. IsSeq(held) /\ version \in [FlattenedInterface(P) -> Nat] /\ cycle \in Nat
  BY CycleBoundAssumption DEF RunsInv, Inv, ControlInv, EngineOK
<1>2. 1 \in DOMAIN held /\ 2 \in DOMAIN held
  BY <1>1 DEF IsSeq
<1>3. c1 \in RangeOf(held) /\ c2 \in RangeOf(held) /\ c1 \in Live /\ c2 \in Live
  BY <1>2 DEF RangeOf, Live
<1>4. /\ ContextOK(P, c1) /\ ContextOK(P, c2) /\ c1.cycle = cycle /\ c2.cycle = cycle
      /\ StoreOK(P, version, c1) /\ StoreOK(P, version, c2)
      /\ StoreMeans(P, c1) /\ StoreMeans(P, c2)
  BY <1>3 DEF RunsInv, Inv, ControlInv, ContextsOK, StoresOK, CyclesOK
<1>5. \A n \in DOMAIN c1.val \cap DOMAIN c2.val : c1.val[n] = c2.val[n]
  BY <1>3 DEF RunsInv, Inv, NamesAgree
<1>6. c1.stack = c2.stack /\ c1.label = c2.label
  <2>1. MergePoint(c1) = MergePoint(c2)
    BY <1>3 DEF RunsInv, Inv, ControlInv, ExitOK
  <2>2. c1.stack = c2.stack
    BY <1>3 DEF RunsInv, Faithful, MergedStacksAgree
  <2> QED BY <2>1, <2>2 DEF MergePoint
<1>7. d.stack = c1.stack /\ d.label = c1.label /\ d.cycle = c1.cycle
  BY <1>1, <1>4, MergeOK
<1>8. /\ StoreMeans(P, d)
      /\ \A x \in FlattenedInterface(P) :
           /\ \A w \in PathWorlds(P, c1) :
                w \in CurrentValue(d, x).worlds <=> w \in CurrentValue(c1, x).worlds
           /\ \A w \in PathWorlds(P, c2) \ PathWorlds(P, c1) :
                w \in CurrentValue(d, x).worlds <=> w \in CurrentValue(c2, x).worlds
  <2>1. c1.cycle \in Nat /\ c2.cycle = c1.cycle
    BY <1>1, <1>4
  <2> QED BY <1>1, <1>4, <1>5, <2>1, MergeMeans
<1>9. PathWorlds(P, d) = PathWorlds(P, c1) \cup PathWorlds(P, c2)
  BY DEF RunsInv, Faithful, MergesKeepConstraints
<1>10. /\ \A w \in PathWorlds(P, c1) : Follows(c1, w)
       /\ \A w \in PathWorlds(P, c2) : Follows(c2, w)
  <2>1. /\ <<"held", 0, 1>> \in Places /\ <<"held", 0, 2>> \in Places
        /\ ContextAt(<<"held", 0, 1>>) = c1 /\ ContextAt(<<"held", 0, 2>>) = c2
    BY <1>2, PlaceForms, ContextForms
  <2>2. StandsFor(<<"held", 0, 1>>) = c1 /\ StandsFor(<<"held", 0, 2>>) = c2
    BY <2>1, PlainPlace
  <2> QED BY <2>1, <2>2 DEF RunsInv, ContextsFollowRuns
<1>11. ASSUME NEW w \in PathWorlds(P, d)
       PROVE  Follows(d, w)
  <2>1. CASE w \in PathWorlds(P, c1)
    <3>1. PICK k : OnTrace(w, k) /\ IsConfiguration(k) /\ Matches(c1, w, k)
      BY <1>10, <2>1, FollowsIff
    <3>2. Matches(d, w, k)
      BY <1>7, <1>8, <2>1, <3>1 DEF Matches
    <3> QED BY <3>1, <3>2, FollowsIff
  <2>2. CASE w \in PathWorlds(P, c2) \ PathWorlds(P, c1)
    <3>1. PICK k : OnTrace(w, k) /\ IsConfiguration(k) /\ Matches(c2, w, k)
      BY <1>10, <2>2, FollowsIff
    <3>2. Matches(d, w, k)
      BY <1>4, <1>6, <1>7, <1>8, <2>2, <3>1 DEF Matches
    <3> QED BY <3>1, <3>2, FollowsIff
  <2> QED BY <1>9, <2>1, <2>2
<1>12. Position(d) = Position(c1) /\ Position(d) = Position(c2)
  BY <1>4, <1>6, <1>7 DEF Position
<1> QED BY <1>8, <1>9, <1>11, <1>12

(* Merger::merge of two contexts.                                          *)
LEMMA MergePairRuns ==
  ASSUME RunsInv, Inv', Faithful', MergePair
  PROVE  RunsInv'
<1>1. PICK n : n = Len(held)
  OBVIOUS
<1>2. PICK c1, c2 : c1 = held[1] /\ c2 = held[2]
  OBVIOUS
<1>3. PICK d : d = Merge(P, version, c1, c2)
  OBVIOUS
<1>4. /\ prog' = prog /\ phase = "merge" /\ phase' = "merge" /\ n > 1
      /\ explorer' = explorer /\ merger' = merger /\ succeeding' = succeeding
      /\ pending' = pending /\ held' = <<d>> \o SubSeq(held, 3, n)
  BY <1>1, <1>2, <1>3 DEF MergePair
<1>5. /\ n \in Nat /\ DOMAIN held = 1 .. n /\ DOMAIN held' = 1 .. n - 1
      /\ held'[1] = d /\ \A j \in 2 .. n - 1 : held'[j] = held[j + 1]
  <2>1. IsSeq(held)
    BY DEF RunsInv, Inv, ControlInv, EngineOK
  <2>2. n \in Nat /\ DOMAIN held = 1 .. n /\ held \in Seq(RangeOf(held))
    BY <1>1, <2>1 DEF IsSeq
  <2>3. PICK t : t = SubSeq(held, 3, n)
    OBVIOUS
  <2>4. t \in Seq(RangeOf(held)) /\ Len(t) = n - 2 /\ \A i \in 1 .. n - 2 : t[i] = held[i + 2]
    BY <1>1, <1>4, <2>2, <2>3
  <2>5. held' = <<d>> \o t
    BY <1>4, <2>3
  <2>6. PICK S : S = RangeOf(held) \cup {d}
    OBVIOUS
  <2>7. t \in Seq(S) /\ <<d>> \in Seq(S)
    BY <2>4, <2>6
  <2> QED BY <1>4, <2>2, <2>4, <2>5, <2>7
<1>6. /\ StoreMeans(P, d)
      /\ PathWorlds(P, d) = PathWorlds(P, c1) \cup PathWorlds(P, c2)
      /\ \A w \in PathWorlds(P, d) : Follows(d, w)
  BY <1>1, <1>2, <1>3, <1>4, MergedFollows
<1> DEFINE h(i) == <<"held", 0, i>>
           old == {h(i) : i \in 1 .. n}
           new == {h(i) : i \in 1 .. n - 1}
<1>7. /\ \A i \in 1 .. n : h(i) \in Places /\ ContextAt(h(i)) = held[i]
      /\ ContextAt(h(1))' = d
      /\ \A i \in 2 .. n - 1 : ContextAt(h(i))' = held[i + 1]
      /\ \A i, j : h(i) = h(j) => i = j
  BY <1>5, PlaceForms, ContextForms, NextPlaces
<1>8. Places' = (Places \ old) \cup new
  <2>1. ASSUME NEW b
        PROVE  b \in Places' <=> b \in (Places \ old) \/ b \in new
    <3>1. (\E i \in DOMAIN held' : b = <<"held", 0, i>>) <=> b \in new
      BY <1>5
    <3>2. (\E i \in DOMAIN held : b = <<"held", 0, i>>) <=> b \in old
      BY <1>5
    <3>3. b \in Places' <=>
            \/ \E e \in explorer : b = <<"explorer", e, 0>>
            \/ \E e \in succeeding : b = <<"succeeding", e, 0>>
            \/ \E m \in DOMAIN merger : \E i \in DOMAIN merger[m] : b = <<"merger", m, i>>
            \/ \E i \in DOMAIN held' : b = <<"held", 0, i>>
            \/ \E i \in DOMAIN pending : b = <<"pending", 0, i>>
      BY <1>4, NextPlaces
    <3>4. b \in old => /\ ~ \E e \in explorer : b = <<"explorer", e, 0>>
                       /\ ~ \E e \in succeeding : b = <<"succeeding", e, 0>>
                       /\ ~ \E m \in DOMAIN merger : \E i \in DOMAIN merger[m] : b = <<"merger", m, i>>
                       /\ ~ \E i \in DOMAIN pending : b = <<"pending", 0, i>>
      OBVIOUS
    <3> HIDE DEF old, new, h
    <3> QED BY <3>1, <3>2, <3>3, <3>4, PlaceForms
  <2> HIDE DEF old, new
  <2> QED BY <2>1
<1>9. ASSUME NEW b \in Places \ old
      PROVE  ContextAt(b)' = ContextAt(b)
  <2>1. CASE \E e \in explorer : b = <<"explorer", e, 0>>
    BY <2>1, ContextForms, NextPlaces
  <2>2. CASE \E e \in succeeding : b = <<"succeeding", e, 0>>
    BY <2>2, ContextForms, NextPlaces
  <2>3. CASE \E m \in DOMAIN merger : \E i \in DOMAIN merger[m] : b = <<"merger", m, i>>
    BY <1>4, <2>3, ContextForms, NextPlaces
  <2>4. CASE \E i \in DOMAIN pending : b = <<"pending", 0, i>>
    BY <1>4, <2>4, ContextForms, NextPlaces
  <2>5. ~ \E i \in DOMAIN held : b = <<"held", 0, i>>
    BY <1>5, <1>9
  <2> QED BY <2>1, <2>2, <2>3, <2>4, <2>5, PlaceForms
<1>10. old \in SUBSET Places
  BY <1>7
<1>11. \A i \in 1 .. n : /\ StoreMeans(P, held[i])
                         /\ \A w \in PathWorlds(P, held[i]) : Follows(held[i], w)
  <2> SUFFICES ASSUME NEW i \in 1 .. n
               PROVE  /\ StoreMeans(P, held[i])
                      /\ \A w \in PathWorlds(P, held[i]) : Follows(held[i], w)
    OBVIOUS
  <2>1. h(i) \in Places /\ ContextAt(h(i)) = held[i]
    BY <1>7
  <2>2. StandsFor(h(i)) = held[i]
    BY <1>4, <2>1, PlainPlace
  <2>3. held[i] \in Live
    BY <2>1, LiveAtPlaces
  <2> HIDE DEF h
  <2> QED BY <2>1, <2>2, <2>3 DEF RunsInv, ContextsFollowRuns
<1>12. \A a \in new :
         /\ StoreMeans(P, ContextAt(a)')
         /\ \A w \in PathWorlds(P, ContextAt(a)') : Follows(ContextAt(a)', w)
  <2> SUFFICES ASSUME NEW i \in 1 .. n - 1
               PROVE  /\ StoreMeans(P, ContextAt(h(i))')
                      /\ \A w \in PathWorlds(P, ContextAt(h(i))') : Follows(ContextAt(h(i))', w)
    OBVIOUS
  <2>1. CASE i = 1
    BY <1>6, <1>7, <2>1
  <2>2. CASE i # 1
    <3>1. i \in 2 .. n - 1 /\ i + 1 \in 1 .. n
      BY <1>5, <2>2
    <3>2. ContextAt(h(i))' = held[i + 1]
      BY <1>7, <3>1
    <3> QED BY <1>11, <3>1, <3>2
  <2> QED BY <2>1, <2>2
<1>13. /\ \A i \in 1 .. n : \A w : w \in PathWorlds(P, ContextAt(h(i))) <=> w \in PathWorlds(P, held[i])
       /\ \A w : w \in PathWorlds(P, ContextAt(h(1))') <=>
                   w \in PathWorlds(P, held[1]) \/ w \in PathWorlds(P, held[2])
       /\ \A i \in 2 .. n - 1 : \A w :
            w \in PathWorlds(P, ContextAt(h(i))') <=> w \in PathWorlds(P, held[i + 1])
  BY <1>2, <1>6, <1>7
<1> HIDE DEF h
<1>14. \A w \in Worlds(P) : \A a \in old :
         (\A b \in Places : w \in PathWorlds(P, ContextAt(b)) <=> b = a) =>
            \E b \in new : \A e \in new : w \in PathWorlds(P, ContextAt(e)') <=> e = b
  <2> SUFFICES ASSUME NEW w \in Worlds(P), NEW i \in 1 .. n,
                      \A b \in Places : w \in PathWorlds(P, ContextAt(b)) <=> b = h(i)
               PROVE  \E b \in new : \A e \in new : w \in PathWorlds(P, ContextAt(e)') <=> e = b
    OBVIOUS
  <2>1. \A j \in 1 .. n : w \in PathWorlds(P, held[j]) <=> j = i
    BY <1>7, <1>13
  <2>2. PICK k \in 1 .. n - 1 : IF i <= 2 THEN k = 1 ELSE k = i - 1
    BY <1>4, <1>5
  <2>3. ASSUME NEW j \in 1 .. n - 1
        PROVE  w \in PathWorlds(P, ContextAt(h(j))') <=> j = k
    <3>1. CASE j = 1
      <4>1. w \in PathWorlds(P, ContextAt(h(j))') <=> i = 1 \/ i = 2
        BY <1>4, <1>5, <1>13, <2>1, <3>1
      <4> QED BY <1>5, <2>2, <3>1, <4>1
    <3>2. CASE j # 1
      <4>1. j \in 2 .. n - 1 /\ j + 1 \in 1 .. n
        BY <1>5, <3>2
      <4>2. w \in PathWorlds(P, ContextAt(h(j))') <=> j + 1 = i
        BY <1>13, <2>1, <4>1
      <4> QED BY <1>5, <2>2, <4>1, <4>2
    <3> QED BY <3>1, <3>2
  <2>4. h(k) \in new /\ \A e \in new : w \in PathWorlds(P, ContextAt(e)') <=> e = h(k)
    BY <1>7, <2>3
  <2> QED BY <2>4
<1>15. \A w \in Worlds(P) : \A b \in new :
         w \in PathWorlds(P, ContextAt(b)') => \E a \in old : w \in PathWorlds(P, ContextAt(a))
  <2> SUFFICES ASSUME NEW w \in Worlds(P), NEW j \in 1 .. n - 1,
                      w \in PathWorlds(P, ContextAt(h(j))')
               PROVE  \E i \in 1 .. n : w \in PathWorlds(P, ContextAt(h(i)))
    BY DEF old, new
  <2>1. CASE j = 1
    BY <1>4, <1>5, <1>13, <2>1
  <2>2. CASE j # 1
    <3>1. j \in 2 .. n - 1 /\ j + 1 \in 1 .. n
      BY <1>5, <2>2
    <3> QED BY <1>13, <3>1
  <2> QED BY <2>1, <2>2
<1> HIDE DEF old, new
<1>16. phase # "done" /\ phase # "summarize" /\ phase' # "summarize"
  BY <1>4
<1> QED BY <1>4, <1>8, <1>9, <1>10, <1>12, <1>14, <1>15, <1>16, PlainStepKeeps

-----------------------------------------------------------------------------
(* What the engine's contexts are.                                         *)

(* Every step of a faithful engine keeps the contexts at the runs.         *)
LEMMA NextRuns == RunsInv /\ Faithful' /\ [Next]_vars => RunsInv'
<1> SUFFICES ASSUME RunsInv, Faithful', [Next]_vars
             PROVE  RunsInv'
  OBVIOUS
<1>1. Inv'
  BY NextOK, NextStores DEF RunsInv, Inv, StoresKept
<1>2. CASE \/ TimeOut \/ UNCHANGED vars
  <2>1. UNCHANGED <<prog, phase, explorer, merger, succeeding, held, pending, todo>>
    BY <1>2 DEF TimeOut, vars, contextVars
  <2> QED BY <1>1, <2>1, StutterRuns
<1>3. CASE RunLoop
  BY <1>1, <1>3, RunLoopRuns
<1>4. CASE EndOfStep
  BY <1>1, <1>4, EndOfStepRuns
<1>5. CASE LocalTermination
  BY <1>1, <1>5, LocalTerminationRuns
<1>6. CASE BeginMerge
  BY <1>1, <1>6, BeginMergeRuns
<1>7. CASE MergePair
  BY <1>1, <1>7, MergePairRuns
<1>8. CASE EndMerge
  BY <1>1, <1>8, EndMergeRuns
<1>9. CASE HandlePassThroughVertex
  BY <1>1, <1>9, HandlePassThroughVertexRuns
<1>10. CASE VisitAssignmentInstruction
  BY <1>1, <1>10, VisitAssignmentInstructionRuns
<1>11. CASE VisitIfInstruction
  BY <1>1, <1>11, VisitIfInstructionRuns
<1>12. CASE VisitCallInstruction
  BY <1>1, <1>12, VisitCallInstructionRuns
<1>13. CASE ApplyNextSummary
  BY <1>1, <1>13, ApplyNextSummaryRuns
<1>14. CASE HandleProgramExitVertex
  BY <1>1, <1>14, HandleProgramExitVertexRuns
<1>15. CASE HandleFunctionBlockExitVertex
  BY <1>1, <1>15, HandleFunctionBlockExitVertexRuns
<1>16. CASE Dispatch
  BY <1>1, <1>16, DispatchRuns
<1> QED BY <1>2, <1>3, <1>4, <1>5, <1>6, <1>7, <1>8, <1>9, <1>10, <1>11,
           <1>12, <1>13, <1>14, <1>15, <1>16 DEF Next, EngineStep, Done

(* The contexts of a faithful engine are the runs of the program: each is  *)
(* where the runs in its path constraint are, with their values, and every *)
(* run is in the share of one place.                                       *)
THEOREM ContextsAreRuns == Spec /\ []Faithful => []RunsInv
<1>1. Init /\ Faithful => RunsInv
  BY InitRuns
<1> QED BY <1>1, NextRuns, PTL DEF Spec

(* A context that follows a run simulates it.                              *)
LEMMA FollowsSimulates ==
  ASSUME NEW c, ContextOK(P, c), NEW w, Follows(c, w)
  PROVE  Simulates(c, w)
<1>1. PICK env : env = Trace[prog][w][Position(c)].env
  OBVIOUS
<1>2. /\ DOMAIN c.ver = FlattenedInterface(P) /\ Position(c) \in DOMAIN Trace[prog][w]
      /\ env \in [FlattenedInterface(P) -> BOOLEAN]
      /\ \A x \in FlattenedInterface(P) : env[x] <=> w \in CurrentValue(c, x).worlds
  BY <1>1 DEF ContextOK, Follows
<1>3. \A x \in DOMAIN c.ver : (w \in CurrentValue(c, x).worlds) = env[x]
  BY <1>2
<1> QED BY <1>1, <1>2, <1>3 DEF Simulates

(* Where contexts follow runs they simulate them.                          *)
LEMMA RunsSimulate == RunsInv => ContextsSimulateRuns
<1> SUFFICES ASSUME RunsInv, NEW c \in Live, phase # "summarize" \/ c \notin RangeOf(held),
                    NEW w \in PathWorlds(P, c)
             PROVE  Simulates(c, w)
  BY DEF ContextsSimulateRuns
<1>1. PICK a \in Places : ContextAt(a) = c
  BY LiveAtPlaces
<1>2. phase # "summarize" \/ a[1] # "held"
  <2>1. ASSUME a[1] = "held"
        PROVE  c \in RangeOf(held)
    BY <1>1, <2>1, PlaceForms, ContextForms DEF RangeOf
  <2> QED BY <2>1
<1>3. Follows(c, w)
  BY <1>1, <1>2, PlainPlace DEF RunsInv, ContextsFollowRuns
<1>4. ContextOK(P, c)
  BY DEF RunsInv, Inv, ControlInv, ContextsOK
<1> QED BY <1>3, <1>4, FollowsSimulates

(* Where every run is in one share, no run is lost or followed twice.      *)
LEMMA RunsPartition == RunsInv => ContextsPartitionWorlds
<1> SUFFICES ASSUME RunsInv, phase \notin {"summarize", "done"}
             PROVE  /\ UNION {PathWorlds(P, c) : c \in Live} = Worlds(P)
                    /\ \A c, d \in Live : c # d => PathWorlds(P, c) \cap PathWorlds(P, d) = {}
  BY DEF ContextsPartitionWorlds
<1>1. \A a \in Places : Share(a) = PathWorlds(P, ContextAt(a))
  BY PlainPlace
<1>2. \A w \in Worlds(P) : \E a \in Places : \A b \in Places :
        w \in PathWorlds(P, ContextAt(b)) <=> b = a
  BY <1>1 DEF RunsInv, WorldsAreSharedOut, SharedOut
<1>3. \A c : PathWorlds(P, c) \subseteq Worlds(P)
  BY SatisfyingAt DEF PathWorlds
<1>4. \A c : c \in Live <=> \E a \in Places : ContextAt(a) = c
  BY LiveAtPlaces
<1>5. UNION {PathWorlds(P, c) : c \in Live} = Worlds(P)
  <2>1. \A w \in Worlds(P) : \E c \in Live : w \in PathWorlds(P, c)
    BY <1>2, <1>4
  <2> QED BY <1>3, <2>1
<1>6. \A c, d \in Live : c # d => PathWorlds(P, c) \cap PathWorlds(P, d) = {}
  <2> SUFFICES ASSUME NEW c \in Live, NEW d \in Live, c # d,
                      NEW w \in PathWorlds(P, c), w \in PathWorlds(P, d)
               PROVE  FALSE
    OBVIOUS
  <2>1. PICK a \in Places, b \in Places : ContextAt(a) = c /\ ContextAt(b) = d
    BY <1>4
  <2>2. w \in Worlds(P)
    BY <1>3
  <2> QED BY <1>2, <2>1, <2>2
<1> QED BY <1>5, <1>6

(* The context that starts the next cycle stands for every run.            *)
LEMMA RunsEmbedded == RunsInv => PathConstraintIsEmbedded
<1> SUFFICES ASSUME RunsInv, NEW c \in succeeding, NEW w \in Worlds(P)
             PROVE  Simulates(c, w)
  BY DEF PathConstraintIsEmbedded
<1>1. /\ succeeding = {c} /\ explorer = {} /\ MergerIsEmpty /\ held = <<>> /\ pending = <<>>
      /\ phase = "step"
  BY DEF RunsInv, Inv, ControlInv, ExitOK
<1>2. \A a \in Places : ContextAt(a) = c
  <2>1. DOMAIN held = {} /\ DOMAIN pending = {} /\ \A m \in DOMAIN merger : DOMAIN merger[m] = {}
    BY <1>1 DEF MergerIsEmpty
  <2> QED BY <1>1, <2>1, PlaceForms, ContextForms
<1>3. \A a \in Places : StandsFor(a) = c /\ Share(a) = PathWorlds(P, c)
  BY <1>1, <1>2, PlainPlace
<1>4. \E a \in Places : w \in Share(a)
  BY <1>1 DEF RunsInv, WorldsAreSharedOut, SharedOut
<1>5. w \in PathWorlds(P, c) /\ Follows(c, w)
  BY <1>2, <1>3, <1>4 DEF RunsInv, ContextsFollowRuns
<1>6. ContextOK(P, c)
  BY DEF RunsInv, Inv, ControlInv, ContextsOK, Live
<1> QED BY <1>5, <1>6, FollowsSimulates

(* Assignment, fork, merge, call, application of a summary and change of   *)
(* cycle keep every context a faithful symbolic state, for every program,  *)
(* cycle bound and time-out.                                               *)
THEOREM SimulateRuns == Spec /\ []Faithful => []ContextsSimulateRuns
BY ContextsAreRuns, RunsSimulate, PTL

(* No run is lost and none is followed by two contexts.                    *)
THEOREM PartitionWorlds == Spec /\ []Faithful => []ContextsPartitionWorlds
BY ContextsAreRuns, RunsPartition, PTL

(* When the conditions hold the path constraint is embedded, as the comment*)
(* in Executor::handleProgramExitVertex says.                              *)
THEOREM ConstraintEmbedded == Spec /\ []Faithful => []PathConstraintIsEmbedded
BY ContextsAreRuns, RunsEmbedded, PTL
=============================================================================
