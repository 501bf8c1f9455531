------------------------- MODULE EtfaCoverageProofs -------------------------
(***************************************************************************)
(* What the ETFA engine covers, for every program, cycle bound and         *)
(* time-out: the branches that it reports are those that its contexts have *)
(* taken, its test cases take them, and it does not end before all of them *)
(* are covered.  First come the runs and the branches that they take; then *)
(* one lemma for every action, which keeps the invariant CoverageInv.      *)
(* Last comes that the engine implements ScanCycle: what every action does *)
(* to the runs that the contexts stand for.                                *)
(***************************************************************************)
EXTENDS EtfaRunProofs, FiniteSetTheorems

-----------------------------------------------------------------------------
(* What a run takes on its way.                                            *)

(* The start of a cycle.                                                   *)
AtStart(p, k) == k.label = MainCfg(p).entry /\ k.stack = <<MainFrame(p)>>

(* A configuration that a run can be in.                                   *)
RunOK(p, k) ==
  /\ k = [cycle |-> k.cycle, label |-> k.label, stack |-> k.stack, env |-> k.env, taken |-> k.taken]
  /\ k.cycle \in Nat
  /\ StackOK(p, k.stack) /\ AtVertex(p, k)
  /\ k.env \in [FlattenedInterface(p) -> BOOLEAN]
  /\ k.taken \subseteq Branches(p)

(* A step forgets no branch, and only at the start of a cycle it is in     *)
(* another one.                                                            *)
Advances(p, k, next) ==
  /\ k.taken \subseteq next.taken
  /\ next.cycle = k.cycle \/ (next.cycle = k.cycle + 1 /\ AtStart(p, next) /\ next.taken = k.taken)

(* Expressions are Boolean.                                                *)
LEMMA EvaluatesToBoolean ==
  ASSUME NEW k, NEW F, k.env \in [F -> BOOLEAN], NEW e, IsExpression(e),
         \A ref \in ArgumentsOf(e) : Flatten(Scope(k), ref) \in F
  PROVE  Evaluate(k, e) \in BOOLEAN
<1> DEFINE x(i) == Flatten(Scope(k), e.args[i])
<1>1. \A i \in DOMAIN e.args : k.env[x(i)] \in BOOLEAN
  <2>1. \A i \in DOMAIN e.args : x(i) \in F
    BY DEF ArgumentsOf
  <2> HIDE DEF x
  <2> QED BY <2>1
<1>2. CASE e.op \in {"true", "false"}
  BY <1>2 DEF Evaluate
<1>3. CASE e.op = "id"
  <2>1. 1 \in DOMAIN e.args /\ Evaluate(k, e) = k.env[x(1)]
    BY <1>3 DEF IsExpression, Evaluate
  <2> QED BY <1>1, <2>1
<1>4. CASE e.op = "not"
  BY <1>4 DEF Evaluate
<1>5. CASE e.op = "and"
  BY <1>5 DEF Evaluate
<1>6. CASE e.op = "or"
  BY <1>6 DEF Evaluate
<1> QED BY <1>2, <1>3, <1>4, <1>5, <1>6 DEF IsExpression, Operators

(* The vertex that a run is at.                                            *)
LEMMA RunVertex ==
  ASSUME NEW q \in Programs, NEW p, p = Code[q], NEW k, RunOK(p, k),
         NEW g, g = CfgOf(p, Scope(k)), NEW v, v = g.vertices[k.label]
  PROVE  /\ WellFormed(p) /\ Scope(k) \in DOMAIN p.scopes /\ WellFormedVertex(p, Scope(k), k.label)
         /\ Depth(k) \in Nat \ {0} /\ (g.type = "PROGRAM" <=> Depth(k) = 1)
         /\ g.type \in {"PROGRAM", "FUNCTION_BLOCK"}
         /\ v.type \in {"ENTRY", "REGULAR", "EXIT"} /\ (v.type # "REGULAR" => v.op = "none")
         /\ v.op \in {"none", "assign", "havoc", "if", "call"}
         /\ v.op = "assign" => IsExpression(v.rhs)
         /\ v.op = "if" => IsExpression(v.cond)
         /\ \A ref \in References(v) : Flatten(Scope(k), ref) \in FlattenedInterface(p)
         /\ v.op = "if" => k.label \in Statements(p) /\ {k.label} \X BOOLEAN \subseteq Branches(p)
<1>1. WellFormed(p) /\ ReferencesResolve(p)
  BY CodeAssumption
<1>2. /\ Scope(k) \in DOMAIN p.scopes /\ Depth(k) \in Nat \ {0}
      /\ (g.type = "PROGRAM" <=> Depth(k) = 1)
  BY <1>1, FramesOfStack DEF RunOK
<1>3. k.label \in DOMAIN g.vertices
  BY DEF RunOK, AtVertex
<1>4. /\ WellFormedVertex(p, Scope(k), k.label) /\ g.type \in {"PROGRAM", "FUNCTION_BLOCK"}
      /\ p.scopes[Scope(k)] \in DOMAIN p.cfgs
  BY <1>1, <1>2, <1>3 DEF WellFormed
<1>5. v.type \in {"ENTRY", "REGULAR", "EXIT"} /\ (v.type # "REGULAR" => v.op = "none")
  BY <1>4 DEF WellFormedVertex
<1>6. g = p.cfgs[p.scopes[Scope(k)]]
  BY DEF CfgOf
<1>7. v \in RangeOf(g.vertices)
  BY <1>3 DEF RangeOf
<1>8. /\ v.op \in {"none", "assign", "havoc", "if", "call"}
      /\ v.op = "assign" => IsExpression(v.rhs)
      /\ v.op = "if" => IsExpression(v.cond)
  BY <1>4, <1>6, <1>7, ExpressionsAssumption
<1>9. \A ref \in References(v) : Flatten(Scope(k), ref) \in FlattenedInterface(p)
  BY <1>1, <1>2, <1>3 DEF ReferencesResolve
<1>10. v.op = "if" => k.label \in Statements(p) /\ {k.label} \X BOOLEAN \subseteq Branches(p)
  BY <1>3, <1>4, <1>6 DEF Statements, Branches
<1> QED BY <1>1, <1>2, <1>4, <1>5, <1>8, <1>9, <1>10

(* The run starts well.                                                    *)
LEMMA RunStartOK ==
  ASSUME NEW q \in Programs, NEW p, p = Code[q], NEW w, NEW k, k = InitialConfiguration(p, w)
  PROVE  RunOK(p, k) /\ k.cycle = 0 /\ AtStart(p, k)
<1>1. WellFormed(p)
  BY CodeAssumption
<1>2. k = [cycle |-> 0, label |-> MainCfg(p).entry, stack |-> <<MainFrame(p)>>,
           env |-> k.env, taken |-> {}]
  BY DEF InitialConfiguration, MainFrame
<1>3. k.env \in [FlattenedInterface(p) -> BOOLEAN]
  <2>1. k.env = [x \in FlattenedInterface(p) |->
                   IF x \in WholeProgramInputs(p) THEN <<0, x>> \in w ELSE InitialValue(p, x)]
    BY DEF InitialConfiguration
  <2>2. \A x \in FlattenedInterface(p) :
          k.env[x] = IF x \in WholeProgramInputs(p) THEN <<0, x>> \in w ELSE InitialValue(p, x)
    BY <2>1
  <2>3. DOMAIN k.env = FlattenedInterface(p) /\ k.env = [x \in FlattenedInterface(p) |-> k.env[x]]
    BY <2>1
  <2>4. ASSUME NEW x \in FlattenedInterface(p)
        PROVE  k.env[x] \in BOOLEAN
    <3>1. CASE x \in WholeProgramInputs(p)
      <4>1. k.env[x] = (<<0, x>> \in w)
        BY <2>2, <3>1
      <4> QED BY <4>1
    <3>2. CASE x \notin WholeProgramInputs(p)
      BY <2>2, <3>2, ExpressionsAssumption
    <3> QED BY <3>1, <3>2
  <2> QED BY <2>3, <2>4
<1>4. /\ k.cycle = 0 /\ k.label = MainCfg(p).entry /\ k.stack = <<MainFrame(p)>> /\ k.taken = {}
  BY <1>2
<1>5. StackOK(p, k.stack)
  <2>1. MainFrame(p) \in [scope : DOMAIN p.scopes, ret : Nat] /\ Len(MainFrame(p).scope) = 1
    <3>1. MainScope(p) \in DOMAIN p.scopes /\ MainCfg(p).entry \in Nat
      BY <1>1 DEF WellFormed, MainCfg, WellFormedVertex
    <3>2. Len(MainScope(p)) = 1
      BY DEF MainScope
    <3> QED BY <3>1, <3>2 DEF MainFrame
  <2>2. DOMAIN k.stack = {1} /\ k.stack[1] = MainFrame(p) /\ k.stack # <<>>
    BY <1>4
  <2>3. k.stack \in Seq([scope : DOMAIN p.scopes, ret : Nat])
    <3>1. PICK f : f = MainFrame(p)
      OBVIOUS
    <3>2. PICK F : F = [scope : DOMAIN p.scopes, ret : Nat]
      OBVIOUS
    <3>3. f \in F /\ k.stack = <<f>>
      BY <1>4, <2>1, <3>1, <3>2
    <3>4. k.stack \in Seq(F)
      BY <3>3
    <3> QED BY <3>2, <3>4
  <2> QED BY <2>1, <2>2, <2>3 DEF StackOK
<1>6. AtVertex(p, k)
  <2>1. Scope(k) = MainScope(p)
    BY <1>4 DEF Scope, MainFrame
  <2> QED BY <1>1, <1>4, <2>1 DEF AtVertex, WellFormed, MainCfg
<1>7. k = [cycle |-> k.cycle, label |-> k.label, stack |-> k.stack, env |-> k.env, taken |-> k.taken]
  BY <1>2
<1> QED BY <1>3, <1>4, <1>5, <1>6, <1>7 DEF RunOK, AtStart

(* Every step of a run leads to a configuration that a run can be in.      *)
LEMMA RunStepOK ==
  ASSUME NEW q \in Programs, NEW p, p = Code[q], NEW w, NEW k, RunOK(p, k),
         NEW next, next = ConcreteStep(p, w, k)
  PROVE  RunOK(p, next) /\ Advances(p, k, next)
<1> PICK g, F : g = CfgOf(p, Scope(k)) /\ F = FlattenedInterface(p)
  OBVIOUS
<1> PICK v : v = g.vertices[k.label]
  OBVIOUS
<1>1. /\ WellFormed(p) /\ Scope(k) \in DOMAIN p.scopes /\ WellFormedVertex(p, Scope(k), k.label)
      /\ Depth(k) \in Nat \ {0} /\ (g.type = "PROGRAM" <=> Depth(k) = 1)
      /\ g.type \in {"PROGRAM", "FUNCTION_BLOCK"}
      /\ v.type \in {"ENTRY", "REGULAR", "EXIT"} /\ (v.type # "REGULAR" => v.op = "none")
      /\ v.op \in {"none", "assign", "havoc", "if", "call"}
      /\ v.op = "assign" => IsExpression(v.rhs)
      /\ v.op = "if" => IsExpression(v.cond)
      /\ \A ref \in References(v) : Flatten(Scope(k), ref) \in F
      /\ v.op = "if" => {k.label} \X BOOLEAN \subseteq Branches(p)
  BY RunVertex
<1>2. StepAt(p, w, k, g, v)
  BY <1>1, ConcreteSteps
<1>3. /\ k = [cycle |-> k.cycle, label |-> k.label, stack |-> k.stack, env |-> k.env, taken |-> k.taken]
      /\ k.cycle \in Nat /\ StackOK(p, k.stack) /\ k.label \in DOMAIN g.vertices
      /\ k.env \in [F -> BOOLEAN] /\ k.taken \subseteq Branches(p)
  BY DEF RunOK, AtVertex
<1>4. ASSUME next.cycle = k.cycle, next.stack = k.stack, next.label \in DOMAIN g.vertices,
             next.env \in [F -> BOOLEAN], k.taken \subseteq next.taken,
             next.taken \subseteq Branches(p),
             next = [cycle |-> next.cycle, label |-> next.label, stack |-> next.stack,
                     env |-> next.env, taken |-> next.taken]
      PROVE  RunOK(p, next) /\ Advances(p, k, next)
  <2>1. Scope(next) = Scope(k)
    BY <1>4 DEF Scope
  <2> QED BY <1>3, <1>4, <2>1 DEF RunOK, Advances, AtVertex
<1>5. CASE v.type = "ENTRY" \/ (v.type = "REGULAR" /\ v.op = "none")
  <2>1. SucceedingLabel(g, k.label) \in DOMAIN g.vertices
    BY <1>1, <1>5 DEF WellFormedVertex, SucceedingLabel
  <2>2. next = Passed(k, SucceedingLabel(g, k.label))
    BY <1>2, <1>5 DEF StepAt
  <2>3. /\ next.cycle = k.cycle /\ next.stack = k.stack /\ next.label \in DOMAIN g.vertices
        /\ next.env = k.env /\ next.taken = k.taken
        /\ next = [cycle |-> next.cycle, label |-> next.label, stack |-> next.stack,
                   env |-> next.env, taken |-> next.taken]
    BY <1>3, <2>1, <2>2 DEF Passed
  <2> QED BY <1>3, <1>4, <2>3
<1>6. CASE v.type = "EXIT" /\ g.type = "PROGRAM"
  <2>1. Depth(k) = 1 /\ Scope(k) = MainScope(p) /\ ReturnLabel(k) = MainCfg(p).entry
    BY <1>1, <1>3, <1>6, FramesOfStack
  <2>2. k.stack = <<MainFrame(p)>>
    BY <1>3, <2>1 DEF StackOK, Depth
  <2> DEFINE env == [x \in F |-> IF x \in WholeProgramInputs(p) THEN <<k.cycle + 1, x>> \in w
                                                                ELSE k.env[x]]
  <2>3. next = [k EXCEPT !.cycle = @ + 1, !.label = ReturnLabel(k), !.env = env]
    <3>1. DOMAIN k.env = F
      BY <1>3
    <3>2. next = ConcreteNextCycle(p, w, k)
      BY <1>2, <1>6 DEF StepAt
    <3> QED BY <1>3, <3>1, <3>2 DEF ConcreteNextCycle
  <2>4. \A x \in F : env[x] = IF x \in WholeProgramInputs(p) THEN <<k.cycle + 1, x>> \in w
                                                              ELSE k.env[x]
    OBVIOUS
  <2>5. env = [x \in F |-> env[x]]
    OBVIOUS
  <2> HIDE DEF env
  <2>6. env \in [F -> BOOLEAN]
    <3>1. ASSUME NEW x \in F
          PROVE  env[x] \in BOOLEAN
      <4>1. CASE x \in WholeProgramInputs(p)
        <5>1. env[x] = (<<k.cycle + 1, x>> \in w)
          BY <2>4, <4>1
        <5> QED BY <5>1
      <4>2. CASE x \notin WholeProgramInputs(p)
        BY <1>3, <2>4, <4>2
      <4> QED BY <4>1, <4>2
    <3> QED BY <2>5, <3>1
  <2>7. /\ next.cycle = k.cycle + 1 /\ next.stack = k.stack /\ next.label = ReturnLabel(k)
        /\ next.env = env /\ next.taken = k.taken
        /\ next = [cycle |-> next.cycle, label |-> next.label, stack |-> next.stack,
                   env |-> next.env, taken |-> next.taken]
    BY <1>3, <2>3
  <2>8. AtVertex(p, next)
    <3>1. Scope(next) = MainScope(p)
      BY <2>1, <2>7 DEF Scope
    <3> QED BY <1>1, <2>1, <2>7, <3>1 DEF AtVertex, WellFormed, MainCfg
  <2>9. AtStart(p, next)
    BY <2>1, <2>2, <2>7 DEF AtStart
  <2> QED BY <1>3, <2>6, <2>7, <2>8, <2>9 DEF RunOK, Advances
<1>7. CASE v.type = "EXIT" /\ g.type = "FUNCTION_BLOCK"
  <2>1. Depth(k) > 1
    BY <1>1, <1>7
  <2>2. next = Returned(k)
    BY <1>2, <1>7 DEF StepAt
  <2>3. /\ next.cycle = k.cycle /\ next.stack = SubSeq(k.stack, 1, Depth(k) - 1)
        /\ next.label = ReturnLabel(k) /\ next.env = k.env /\ next.taken = k.taken
        /\ next = [cycle |-> next.cycle, label |-> next.label, stack |-> next.stack,
                   env |-> next.env, taken |-> next.taken]
    BY <1>3, <2>2 DEF Returned, Depth
  <2>4. StackOK(p, next.stack) /\ AtVertex(p, next)
    BY <1>1, <1>3, <2>1, <2>3, PopFrame
  <2> QED BY <1>3, <2>3, <2>4 DEF RunOK, Advances
<1>8. ASSUME NEW x \in F, NEW b \in BOOLEAN, NEW l \in DOMAIN g.vertices,
             next = Written(k, x, b, l)
      PROVE  RunOK(p, next) /\ Advances(p, k, next)
  <2>1. /\ next.cycle = k.cycle /\ next.stack = k.stack /\ next.label \in DOMAIN g.vertices
        /\ next.env = [k.env EXCEPT ![x] = b] /\ next.taken = k.taken
        /\ next = [cycle |-> next.cycle, label |-> next.label, stack |-> next.stack,
                   env |-> next.env, taken |-> next.taken]
    BY <1>3, <1>8 DEF Written
  <2>2. next.env \in [F -> BOOLEAN]
    BY <1>3, <2>1
  <2> QED BY <1>3, <1>4, <2>1, <2>2
<1>9. CASE v.op = "assign"
  <2>1. Target(g, k.label, "INTRAPROCEDURAL") \in DOMAIN g.vertices
    BY <1>1, <1>9, TargetLeads DEF WellFormedVertex
  <2>2. Flatten(Scope(k), v.var) \in F /\ \A ref \in ArgumentsOf(v.rhs) : Flatten(Scope(k), ref) \in F
    BY <1>1, <1>9 DEF References
  <2>3. Evaluate(k, v.rhs) \in BOOLEAN
    BY <1>1, <1>3, <1>9, <2>2, EvaluatesToBoolean
  <2>4. next = Written(k, Flatten(Scope(k), v.var), Evaluate(k, v.rhs),
                       Target(g, k.label, "INTRAPROCEDURAL"))
    BY <1>2, <1>9 DEF StepAt
  <2> QED BY <1>8, <2>1, <2>2, <2>3, <2>4
<1>10. CASE v.op = "havoc"
  <2>1. Target(g, k.label, "INTRAPROCEDURAL") \in DOMAIN g.vertices
    BY <1>1, <1>10, TargetLeads DEF WellFormedVertex
  <2>2. Flatten(Scope(k), v.var) \in F
    BY <1>1, <1>10 DEF References
  <2>3. PICK b : b = (<<k.cycle, <<Scope(k), "havoc", k.label>>>> \in w)
    OBVIOUS
  <2>4. b \in BOOLEAN
    BY <2>3
  <2>5. next = Written(k, Flatten(Scope(k), v.var), b, Target(g, k.label, "INTRAPROCEDURAL"))
    BY <1>2, <1>10, <2>3 DEF StepAt
  <2> QED BY <1>8, <2>1, <2>2, <2>4, <2>5
<1>11. CASE v.op = "if"
  <2>1. /\ Target(g, k.label, "TRUE_BRANCH") \in DOMAIN g.vertices
        /\ Target(g, k.label, "FALSE_BRANCH") \in DOMAIN g.vertices
    BY <1>1, <1>11, TargetLeads DEF WellFormedVertex
  <2>2. \A ref \in ArgumentsOf(v.cond) : Flatten(Scope(k), ref) \in F
    BY <1>1, <1>11 DEF References
  <2>3. PICK b : b = Evaluate(k, v.cond)
    OBVIOUS
  <2>4. b \in BOOLEAN
    BY <1>1, <1>3, <1>11, <2>2, <2>3, EvaluatesToBoolean
  <2>5. next = Branched(k, b, Target(g, k.label, IF b THEN "TRUE_BRANCH" ELSE "FALSE_BRANCH"))
    BY <1>2, <1>11, <2>3 DEF StepAt
  <2>6. /\ next.cycle = k.cycle /\ next.stack = k.stack /\ next.label \in DOMAIN g.vertices
        /\ next.env = k.env /\ next.taken = k.taken \cup {<<k.label, b>>}
        /\ next = [cycle |-> next.cycle, label |-> next.label, stack |-> next.stack,
                   env |-> next.env, taken |-> next.taken]
    BY <1>3, <2>1, <2>4, <2>5 DEF Branched
  <2>7. <<k.label, b>> \in Branches(p)
    BY <1>1, <1>11, <2>4
  <2> QED BY <1>3, <1>4, <2>6, <2>7
<1>12. CASE v.op = "call"
  <2> DEFINE r == Target(g, k.label, "CALL_TO_RETURN")
             l == Target(g, k.label, "CALL")
  <2>1. /\ Append(Scope(k), v.instance) \in DOMAIN p.scopes /\ r \in DOMAIN g.vertices
        /\ l \in DOMAIN CfgOf(p, Append(Scope(k), v.instance)).vertices
    BY <1>1, <1>12, TargetLeads DEF WellFormedVertex
  <2>2. next = Called(k, v.instance, r, l)
    BY <1>2, <1>12 DEF StepAt
  <2> HIDE DEF r, l
  <2>3. /\ next.cycle = k.cycle /\ next.label = l /\ next.env = k.env /\ next.taken = k.taken
        /\ next.stack = Append(k.stack, [scope |-> Append(Scope(k), v.instance), ret |-> r])
        /\ next = [cycle |-> next.cycle, label |-> next.label, stack |-> next.stack,
                   env |-> next.env, taken |-> next.taken]
    BY <1>3, <2>2 DEF Called
  <2>4. Pushed(k, v.instance, r, next)
    BY <2>3 DEF Pushed, Frame
  <2>5. StackOK(p, next.stack) /\ Scope(next) = Append(Scope(k), v.instance)
    BY <1>1, <1>3, <2>1, <2>4, PushFrame
  <2>6. AtVertex(p, next)
    BY <2>1, <2>3, <2>5 DEF AtVertex
  <2> QED BY <1>3, <2>3, <2>5, <2>6 DEF RunOK, Advances
<1> QED BY <1>1, <1>5, <1>6, <1>7, <1>9, <1>10, <1>11, <1>12

(* Induction over the steps of a run.                                      *)
LEMMA StepByStep ==
  ASSUME NEW n \in Nat, NEW S, 0 \in S,
         \A i \in 0 .. n : (i \in S /\ i + 1 \in 0 .. n) => i + 1 \in S
  PROVE  0 .. n \subseteq S
<1> DEFINE None == {i \in 0 .. n : i \notin S}
<1> SUFFICES ASSUME None # {} PROVE FALSE
  OBVIOUS
<1>1. PICK m \in None : \A k \in None : ~(k < m)
  <2>1. None \in SUBSET Nat
    OBVIOUS
  <2> HIDE DEF None
  <2> QED BY <2>1, LeastNumber
<1>2. m \in 0 .. n /\ m # 0 /\ m \notin S
  BY <1>1
<1>3. m - 1 \in 0 .. n /\ (m - 1) + 1 = m /\ m - 1 < m
  BY <1>2
<1>4. m - 1 \in S
  BY <1>1, <1>3
<1> QED BY <1>2, <1>3, <1>4

(* The configurations of a run are well-formed and advance.                *)
LEMMA RunIsOK ==
  ASSUME NEW q \in Programs, NEW p, p = Code[q], NEW w, NEW at, at = RunAfter(p, w)
  PROVE  /\ \A i \in 0 .. MaxSteps : RunOK(p, at[i])
         /\ \A i \in 0 .. MaxSteps : i + 1 \in 0 .. MaxSteps =>
              at[i + 1] = NextInRun(p, w, at[i]) /\ Advances(p, at[i], at[i + 1])
         /\ at[0].cycle = 0 /\ AtStart(p, at[0])
<1>1. /\ at[0] = InitialConfiguration(p, w)
      /\ \A i \in 0 .. MaxSteps : i # 0 => at[i] = NextInRun(p, w, at[i - 1])
  BY RunSteps
<1>2. RunOK(p, at[0]) /\ at[0].cycle = 0 /\ AtStart(p, at[0])
  BY <1>1, RunStartOK
<1>3. \A i \in 0 .. MaxSteps : i + 1 \in 0 .. MaxSteps => at[i + 1] = NextInRun(p, w, at[i])
  <2>1. ASSUME NEW i \in 0 .. MaxSteps, i + 1 \in 0 .. MaxSteps
        PROVE  at[i + 1] = NextInRun(p, w, at[i])
    <3>1. i + 1 # 0 /\ (i + 1) - 1 = i
      OBVIOUS
    <3> QED BY <1>1, <2>1, <3>1
  <2> QED BY <2>1
<1>4. ASSUME NEW i \in 0 .. MaxSteps, RunOK(p, at[i]), i + 1 \in 0 .. MaxSteps
      PROVE  RunOK(p, at[i + 1]) /\ Advances(p, at[i], at[i + 1])
  <2>1. CASE at[i].cycle = CycleBound
    <3>1. at[i + 1] = at[i]
      BY <1>3, <1>4, <2>1 DEF NextInRun
    <3> QED BY <1>4, <3>1 DEF Advances
  <2>2. CASE at[i].cycle # CycleBound
    <3>1. at[i + 1] = ConcreteStep(p, w, at[i])
      BY <1>3, <1>4, <2>2 DEF NextInRun
    <3> QED BY <1>4, <3>1, RunStepOK
  <2> QED BY <2>1, <2>2
<1> DEFINE S == {i \in 0 .. MaxSteps : RunOK(p, at[i])}
<1>5. 0 \in S
  BY <1>2, MaxStepsAssumption
<1>6. \A i \in 0 .. MaxSteps : (i \in S /\ i + 1 \in 0 .. MaxSteps) => i + 1 \in S
  BY <1>4
<1>7. 0 .. MaxSteps \subseteq S
  <2> HIDE DEF S
  <2> QED BY <1>5, <1>6, MaxStepsAssumption, StepByStep
<1>8. \A i \in 0 .. MaxSteps : RunOK(p, at[i])
  BY <1>7
<1> QED BY <1>2, <1>3, <1>4, <1>8

(* A run never goes back.                                                  *)
LEMMA LaterInRun ==
  ASSUME NEW q \in Programs, NEW p, p = Code[q], NEW w, NEW at, at = RunAfter(p, w),
         NEW i \in 0 .. MaxSteps, NEW j \in 0 .. MaxSteps, i <= j
  PROVE  at[i].taken \subseteq at[j].taken /\ at[i].cycle <= at[j].cycle
<1> DEFINE S == {m \in 0 .. MaxSteps : i <= m => /\ at[i].taken \subseteq at[m].taken
                                                 /\ at[i].cycle <= at[m].cycle}
<1>1. /\ \A m \in 0 .. MaxSteps : at[m].cycle \in Nat
      /\ \A m \in 0 .. MaxSteps : m + 1 \in 0 .. MaxSteps => Advances(p, at[m], at[m + 1])
  BY RunIsOK DEF RunOK
<1>2. 0 \in S
  <2>1. 0 \in 0 .. MaxSteps
    BY MaxStepsAssumption
  <2>2. i <= 0 => i = 0
    OBVIOUS
  <2> QED BY <1>1, <2>1, <2>2
<1>3. ASSUME NEW m \in 0 .. MaxSteps, m \in S, m + 1 \in 0 .. MaxSteps
      PROVE  m + 1 \in S
  <2>1. CASE i <= m
    <3>1. at[i].taken \subseteq at[m].taken /\ at[i].cycle <= at[m].cycle
      BY <1>3, <2>1
    <3>2. at[m].taken \subseteq at[m + 1].taken /\ at[m].cycle <= at[m + 1].cycle
      BY <1>1, <1>3 DEF Advances
    <3> QED BY <1>1, <1>3, <3>1, <3>2
  <2>2. CASE ~(i <= m)
    <3>1. i <= m + 1 => i = m + 1
      BY <2>2
    <3> QED BY <1>1, <1>3, <3>1
  <2> QED BY <2>1, <2>2
<1>4. 0 .. MaxSteps \subseteq S
  <2> HIDE DEF S
  <2> QED BY <1>2, <1>3, MaxStepsAssumption, StepByStep
<1> QED BY <1>4

(* The run at comes from its i-th configuration to the start of the next   *)
(* cycle.                                                                  *)
ReachesStart(p, at, i) ==
  \E j \in 0 .. MaxSteps : /\ at[j].cycle = at[i].cycle + 1 /\ AtStart(p, at[j])
                            /\ at[i].taken \subseteq at[j].taken

(* Every run does, unless it is at its end.                                *)
LEMMA NextStartInRun ==
  ASSUME NEW q \in Programs, NEW p, p = Code[q], NEW w \in Worlds(p),
         NEW at, at = RunAfter(p, w), NEW i \in 0 .. MaxSteps, at[i].cycle < CycleBound
  PROVE  ReachesStart(p, at, i)
<1> DEFINE T == {j \in 0 .. MaxSteps : at[j].cycle > at[i].cycle}
<1>1. /\ \A m \in 0 .. MaxSteps : at[m].cycle \in Nat
      /\ \A m \in 0 .. MaxSteps : m + 1 \in 0 .. MaxSteps => Advances(p, at[m], at[m + 1])
      /\ at[0].cycle = 0
  <2>1. /\ \A m \in 0 .. MaxSteps : RunOK(p, at[m])
        /\ \A m \in 0 .. MaxSteps : m + 1 \in 0 .. MaxSteps => Advances(p, at[m], at[m + 1])
        /\ at[0].cycle = 0
    BY RunIsOK
  <2> QED BY <2>1 DEF RunOK
<1>2. at[MaxSteps].cycle = CycleBound
  BY RunsAssumption
<1>3. PICK j \in T : \A m \in T : ~(m < j)
  <2>1. MaxSteps \in T
    BY <1>2, MaxStepsAssumption
  <2>2. T \in SUBSET Nat
    BY MaxStepsAssumption
  <2> HIDE DEF T
  <2> QED BY <2>1, <2>2, LeastNumber
<1>4. j \in 0 .. MaxSteps /\ at[j].cycle > at[i].cycle
  BY <1>3
<1>5. j # 0
  BY <1>1, <1>4
<1>6. j - 1 \in 0 .. MaxSteps /\ (j - 1) + 1 = j /\ j - 1 < j
  BY <1>4, <1>5, MaxStepsAssumption
<1>7. ~(at[j - 1].cycle > at[i].cycle)
  BY <1>3, <1>6
<1>8. Advances(p, at[j - 1], at[j])
  BY <1>1, <1>4, <1>6
<1>9. at[j].cycle = at[i].cycle + 1 /\ AtStart(p, at[j])
  BY <1>1, <1>4, <1>6, <1>7, <1>8 DEF Advances
<1>10. i <= j
  <2>1. CASE j < i
    <3>1. at[j].cycle <= at[i].cycle
      BY <1>4, <2>1, LaterInRun
    <3> QED BY <1>1, <1>4, <3>1
  <2> QED BY <1>4, <2>1
<1>11. at[i].taken \subseteq at[j].taken
  BY <1>4, <1>10, LaterInRun
<1> QED BY <1>4, <1>9, <1>11 DEF ReachesStart

(* And ends at the start of the cycle after the last.                      *)
LEMMA RunEndsAtStart ==
  ASSUME NEW q \in Programs, NEW p, p = Code[q], NEW w, NEW at, at = RunAfter(p, w),
         NEW i \in 0 .. MaxSteps, at[i].cycle = CycleBound
  PROVE  AtStart(p, at[i])
<1> DEFINE S == {m \in 0 .. MaxSteps : at[m].cycle = CycleBound => AtStart(p, at[m])}
<1>1. 0 \in S
  BY RunIsOK, MaxStepsAssumption
<1>2. ASSUME NEW m \in 0 .. MaxSteps, m \in S, m + 1 \in 0 .. MaxSteps
      PROVE  m + 1 \in S
  <2>1. at[m + 1] = NextInRun(p, w, at[m]) /\ Advances(p, at[m], at[m + 1])
    BY <1>2, RunIsOK
  <2>2. CASE at[m].cycle = CycleBound
    BY <1>2, <2>1, <2>2 DEF NextInRun
  <2>3. CASE at[m].cycle # CycleBound
    BY <1>2, <2>1, <2>3 DEF Advances
  <2> QED BY <2>2, <2>3
<1>3. 0 .. MaxSteps \subseteq S
  <2> HIDE DEF S
  <2> QED BY <1>1, <1>2, MaxStepsAssumption, StepByStep
<1> QED BY <1>3

(* The world u has the inputs of w up to cycle n.                          *)
InputsUpTo(w, u, n) == \A x : x \in u <=> x \in w /\ x[1] <= n

(* Whether the bits of two worlds up to cycle n are the same.              *)
LEMMA SameStep ==
  ASSUME NEW q \in Programs, NEW p, p = Code[q], NEW k, RunOK(p, k), NEW n \in Nat,
         NEW w, NEW u, InputsUpTo(w, u, n), k.cycle <= n,
         ConcreteStep(p, w, k).cycle <= n
  PROVE  ConcreteStep(p, u, k) = ConcreteStep(p, w, k)
<1>g. PICK g : g = CfgOf(p, Scope(k))
  OBVIOUS
<1>v. PICK v : v = g.vertices[k.label]
  OBVIOUS
<1>1. /\ g.type \in {"PROGRAM", "FUNCTION_BLOCK"}
      /\ v.type \in {"ENTRY", "REGULAR", "EXIT"} /\ (v.type # "REGULAR" => v.op = "none")
      /\ v.op \in {"none", "assign", "havoc", "if", "call"}
  BY <1>g, <1>v, RunVertex
<1>2. StepAt(p, w, k, g, v) /\ StepAt(p, u, k, g, v)
  BY <1>1, <1>g, <1>v, ConcreteSteps
<1>3. /\ k = [cycle |-> k.cycle, label |-> k.label, stack |-> k.stack, env |-> k.env, taken |-> k.taken]
      /\ k.cycle \in Nat
  BY DEF RunOK
<1>4. CASE v.type = "ENTRY" \/ (v.type = "REGULAR" /\ v.op = "none")
  BY <1>2, <1>4 DEF StepAt
<1>5. CASE v.type = "EXIT" /\ g.type = "FUNCTION_BLOCK"
  BY <1>2, <1>5 DEF StepAt
<1>6. CASE v.op = "assign"
  BY <1>2, <1>6 DEF StepAt
<1>7. CASE v.op = "if"
  BY <1>2, <1>7 DEF StepAt
<1>8. CASE v.op = "call"
  BY <1>2, <1>8 DEF StepAt
<1>9. CASE v.op = "havoc"
  <2>1. PICK x, l, y : /\ x = Flatten(Scope(k), v.var)
                       /\ l = Target(g, k.label, "INTRAPROCEDURAL")
                       /\ y = <<k.cycle, <<Scope(k), "havoc", k.label>>>>
    OBVIOUS
  <2>2. /\ ConcreteStep(p, w, k) = Written(k, x, y \in w, l)
        /\ ConcreteStep(p, u, k) = Written(k, x, y \in u, l)
    BY <1>2, <1>9, <2>1 DEF StepAt
  <2>3. y \in u <=> y \in w
    BY <2>1 DEF InputsUpTo
  <2>4. CASE y \in w
    <3>1. (y \in w) = TRUE /\ (y \in u) = TRUE
      BY <2>3, <2>4
    <3> QED BY <2>2, <3>1
  <2>5. CASE y \notin w
    <3>1. (y \in w) = FALSE /\ (y \in u) = FALSE
      BY <2>3, <2>5
    <3> QED BY <2>2, <3>1
  <2> QED BY <2>4, <2>5
<1>10. CASE v.type = "EXIT" /\ g.type = "PROGRAM"
  <2>1. /\ ConcreteStep(p, w, k) = ConcreteNextCycle(p, w, k)
        /\ ConcreteStep(p, u, k) = ConcreteNextCycle(p, u, k)
    BY <1>2, <1>10 DEF StepAt
  <2> DEFINE env(z) == [x \in DOMAIN k.env |-> IF x \in WholeProgramInputs(p)
                                              THEN <<k.cycle + 1, x>> \in z ELSE k.env[x]]
  <2>2. /\ ConcreteNextCycle(p, w, k) = [k EXCEPT !.cycle = k.cycle + 1, !.label = ReturnLabel(k),
                                                  !.env = env(w)]
        /\ ConcreteNextCycle(p, u, k) = [k EXCEPT !.cycle = k.cycle + 1, !.label = ReturnLabel(k),
                                                  !.env = env(u)]
    BY <1>3 DEF ConcreteNextCycle
  <2>3. ConcreteNextCycle(p, w, k).cycle = k.cycle + 1
    BY <1>3, <2>2
  <2>4. k.cycle + 1 <= n
    BY <2>1, <2>3
  <2>5. env(u) = env(w)
    <3>1. ASSUME NEW x \in DOMAIN k.env
          PROVE  (IF x \in WholeProgramInputs(p) THEN <<k.cycle + 1, x>> \in u ELSE k.env[x])
                   = (IF x \in WholeProgramInputs(p) THEN <<k.cycle + 1, x>> \in w ELSE k.env[x])
      <4>1. <<k.cycle + 1, x>> \in u <=> <<k.cycle + 1, x>> \in w
        BY <2>4 DEF InputsUpTo
      <4> QED BY <4>1
    <3> QED BY <3>1
  <2> HIDE DEF env
  <2> QED BY <2>1, <2>2, <2>5
<1> QED BY <1>1, <1>4, <1>5, <1>6, <1>7, <1>8, <1>9, <1>10

(* The run of a world is that of the inputs up to cycle n until the next   *)
(* cycle begins.                                                           *)
LEMMA SameRunUpTo ==
  ASSUME NEW q \in Programs, NEW p, p = Code[q], NEW n \in Nat,
         NEW w, NEW u, InputsUpTo(w, u, n),
         NEW at, at = RunAfter(p, w), NEW bt, bt = RunAfter(p, u)
  PROVE  \A i \in 0 .. MaxSteps : at[i].cycle <= n => bt[i] = at[i]
<1> DEFINE S == {i \in 0 .. MaxSteps : at[i].cycle <= n => bt[i] = at[i]}
<1>1. /\ \A i \in 0 .. MaxSteps : RunOK(p, at[i])
      /\ \A i \in 0 .. MaxSteps : i + 1 \in 0 .. MaxSteps =>
           /\ at[i + 1] = NextInRun(p, w, at[i]) /\ Advances(p, at[i], at[i + 1])
           /\ bt[i + 1] = NextInRun(p, u, bt[i])
  BY RunIsOK
<1>2. at[0] = InitialConfiguration(p, w) /\ bt[0] = InitialConfiguration(p, u)
  BY RunSteps
<1>3. \A i \in 0 .. MaxSteps : at[i].cycle \in Nat
  BY <1>1 DEF RunOK
<1>4. InitialConfiguration(p, w) = InitialConfiguration(p, u)
  <2>1. ASSUME NEW x
        PROVE  (IF x \in WholeProgramInputs(p) THEN <<0, x>> \in w ELSE InitialValue(p, x))
                 = (IF x \in WholeProgramInputs(p) THEN <<0, x>> \in u ELSE InitialValue(p, x))
    <3>1. <<0, x>> \in u <=> <<0, x>> \in w
      BY DEF InputsUpTo
    <3> QED BY <3>1
  <2> DEFINE env(z) == [x \in FlattenedInterface(p) |->
                          IF x \in WholeProgramInputs(p) THEN <<0, x>> \in z ELSE InitialValue(p, x)]
             start(e) == [cycle |-> 0, label |-> MainCfg(p).entry,
                          stack |-> <<[scope |-> MainScope(p), ret |-> MainCfg(p).entry]>>,
                          env |-> e, taken |-> {}]
  <2>2. env(w) = env(u)
    BY <2>1
  <2>3. InitialConfiguration(p, w) = start(env(w)) /\ InitialConfiguration(p, u) = start(env(u))
    BY DEF InitialConfiguration
  <2> HIDE DEF env, start
  <2> QED BY <2>2, <2>3
<1>5. 0 \in S
  BY <1>2, <1>4, MaxStepsAssumption
<1>6. ASSUME NEW i \in 0 .. MaxSteps, i \in S, i + 1 \in 0 .. MaxSteps
      PROVE  i + 1 \in S
  <2> SUFFICES ASSUME at[i + 1].cycle <= n
               PROVE  bt[i + 1] = at[i + 1]
    BY <1>6
  <2>1. at[i].cycle <= n
    BY <1>1, <1>3, <1>6 DEF Advances
  <2>2. bt[i] = at[i]
    BY <1>6, <2>1
  <2>3. CASE at[i].cycle = CycleBound
    BY <1>1, <1>6, <2>2, <2>3 DEF NextInRun
  <2>4. CASE at[i].cycle # CycleBound
    <3>1. at[i + 1] = ConcreteStep(p, w, at[i]) /\ bt[i + 1] = ConcreteStep(p, u, at[i])
      BY <1>1, <1>6, <2>2, <2>4 DEF NextInRun
    <3>2. PICK k : k = at[i]
      OBVIOUS
    <3>3. RunOK(p, k) /\ k.cycle <= n /\ ConcreteStep(p, w, k).cycle <= n
      BY <1>1, <2>1, <3>1, <3>2
    <3>4. ConcreteStep(p, u, k) = ConcreteStep(p, w, k)
      BY <3>3, SameStep
    <3> QED BY <3>1, <3>2, <3>4
  <2> QED BY <2>3, <2>4
<1>7. 0 .. MaxSteps \subseteq S
  <2> HIDE DEF S
  <2> QED BY <1>5, <1>6, MaxStepsAssumption, StepByStep
<1> QED BY <1>7

(* What is on the trace is a configuration of the run.                     *)
LEMMA OnTraceInRun ==
  ASSUME NEW q \in Programs, NEW w \in Worlds(Code[q]), NEW pos \in DOMAIN Trace[q][w],
         NEW at, at = RunAfter(Code[q], w)
  PROVE  \E i \in 0 .. MaxSteps : Trace[q][w][pos] = at[i] /\ Position(at[i]) = pos
<1>1. /\ DOMAIN Trace[q][w] = {Position(k) : k \in Run(Code[q], w)}
      /\ \A k \in Run(Code[q], w) : Trace[q][w][Position(k)] = k
  BY TraceOfRun
<1>2. PICK k \in Run(Code[q], w) : Position(k) = pos
  BY <1>1
<1>3. PICK i \in 0 .. MaxSteps : k = at[i]
  BY DEF Run
<1> QED BY <1>1, <1>2, <1>3

(* And the other way round.                                                *)
LEMMA RunOnTrace ==
  ASSUME NEW q \in Programs, NEW w \in Worlds(Code[q]),
         NEW at, at = RunAfter(Code[q], w), NEW i \in 0 .. MaxSteps
  PROVE  /\ Position(at[i]) \in DOMAIN Trace[q][w]
         /\ Trace[q][w][Position(at[i])] = at[i]
<1>1. at[i] \in Run(Code[q], w)
  BY DEF Run
<1> QED BY <1>1, TraceOfRun

(* Where a cycle starts.                                                   *)
LEMMA StartPosition ==
  ASSUME NEW k, AtStart(P, k)
  PROVE  Position(k) = CycleStart(k.cycle)
BY DEF AtStart, MainFrame, Position, CycleStart

(* The inputs up to the cycle of a configuration make a run that takes the *)
(* same branches before the next cycle.                                    *)
LEMMA TakenByTestCase ==
  ASSUME prog \in Programs, NEW w \in Worlds(P), NEW pos \in DOMAIN Trace[prog][w],
         NEW k, k = Trace[prog][w][pos], k.cycle < CycleBound,
         NEW u, InputsUpTo(w, u, k.cycle)
  PROVE  u \in Worlds(P) /\ k.taken \subseteq TakenBefore(u, k.cycle + 1)
<1>1. u \in Worlds(P)
  BY DEF Worlds, InputsUpTo
<1>2. PICK at, bt : at = RunAfter(Code[prog], w) /\ bt = RunAfter(Code[prog], u)
  OBVIOUS
<1>3. PICK i \in 0 .. MaxSteps : k = at[i]
  BY <1>2, OnTraceInRun DEF P
<1>4. PICK p : p = Code[prog]
  OBVIOUS
<1>5. RunOK(p, at[i])
  BY <1>2, <1>4, RunIsOK
<1>6. k.cycle \in Nat
  BY <1>3, <1>5 DEF RunOK
<1>7. bt[i] = at[i]
  <2>1. PICK n \in Nat : n = k.cycle
    BY <1>6
  <2>2. InputsUpTo(w, u, n) /\ at[i].cycle <= n
    BY <1>3, <1>6, <2>1
  <2>3. at = RunAfter(p, w) /\ bt = RunAfter(p, u)
    BY <1>2, <1>4
  <2>4. \A j \in 0 .. MaxSteps : at[j].cycle <= n => bt[j] = at[j]
    BY <1>4, <2>2, <2>3, SameRunUpTo
  <2> QED BY <2>2, <2>4
<1>8. u \in Worlds(p) /\ bt[i].cycle < CycleBound /\ bt = RunAfter(p, u)
  BY <1>1, <1>2, <1>3, <1>4, <1>7 DEF P
<1>9. PICK j \in 0 .. MaxSteps : /\ bt[j].cycle = bt[i].cycle + 1 /\ AtStart(p, bt[j])
                                /\ bt[i].taken \subseteq bt[j].taken
  <2>1. ReachesStart(p, bt, i)
    BY <1>4, <1>8, NextStartInRun
  <2> QED BY <2>1 DEF ReachesStart
<1>10. Position(bt[j]) = CycleStart(k.cycle + 1)
  <2>1. AtStart(P, bt[j]) /\ bt[j].cycle = k.cycle + 1
    BY <1>3, <1>4, <1>7, <1>9 DEF P
  <2> QED BY <2>1, StartPosition
<1>11. Trace[prog][u][Position(bt[j])] = bt[j]
  <2>1. u \in Worlds(Code[prog]) /\ bt = RunAfter(Code[prog], u)
    BY <1>4, <1>8
  <2> QED BY <2>1, RunOnTrace
<1> QED BY <1>1, <1>3, <1>7, <1>9, <1>10, <1>11 DEF TakenBefore

(* Where the runs end.                                                     *)
LEMMA TakenAtTheEnd ==
  ASSUME prog \in Programs, NEW w \in Worlds(P)
  PROVE  /\ TakenBefore(w, CycleBound) \subseteq Branches(P)
         /\ \A pos \in DOMAIN Trace[prog][w] : pos[1] = CycleBound =>
              Trace[prog][w][pos].taken = TakenBefore(w, CycleBound)
<1>1. PICK at : at = RunAfter(Code[prog], w)
  OBVIOUS
<1>2. PICK p : p = Code[prog]
  OBVIOUS
<1>3. ASSUME NEW i \in 0 .. MaxSteps, at[i].cycle = CycleBound
      PROVE  /\ Position(at[i]) = CycleStart(CycleBound)
             /\ at[i].taken = TakenBefore(w, CycleBound)
  <2>1. AtStart(p, at[i])
    BY <1>1, <1>2, <1>3, RunEndsAtStart
  <2>2. Position(at[i]) = CycleStart(CycleBound)
    BY <1>2, <1>3, <2>1, StartPosition DEF P
  <2>3. Trace[prog][w][Position(at[i])] = at[i]
    BY <1>1, RunOnTrace DEF P
  <2> QED BY <2>2, <2>3 DEF TakenBefore
<1>4. MaxSteps \in 0 .. MaxSteps
  BY MaxStepsAssumption
<1>5. at[MaxSteps].cycle = CycleBound
  BY <1>1, RunsAssumption DEF P
<1>6. RunOK(p, at[MaxSteps])
  BY <1>1, <1>2, <1>4, RunIsOK
<1>7. TakenBefore(w, CycleBound) \subseteq Branches(P)
  BY <1>2, <1>3, <1>4, <1>5, <1>6 DEF RunOK, P
<1>8. ASSUME NEW pos \in DOMAIN Trace[prog][w], pos[1] = CycleBound
      PROVE  Trace[prog][w][pos].taken = TakenBefore(w, CycleBound)
  <2>1. PICK i \in 0 .. MaxSteps : Trace[prog][w][pos] = at[i] /\ Position(at[i]) = pos
    BY <1>1, OnTraceInRun DEF P
  <2>2. at[i].cycle = CycleBound
    BY <1>8, <2>1 DEF Position
  <2> QED BY <1>3, <2>1, <2>2
<1> QED BY <1>7, <1>8

(* A step of a run takes the branches that Explorer::updateCoverage finds  *)
(* between the two labels.                                                 *)
LEMMA StepTakes ==
  ASSUME NEW q \in Programs, q \in CoveredPrograms, NEW p, p = Code[q], NEW w,
         NEW k, RunOK(p, k), NEW next, next = ConcreteStep(p, w, k)
  PROVE  next.taken = k.taken \cup BranchesTaken(CfgOf(p, Scope(next)), k.label, next.label)
<1>g. PICK g : g = CfgOf(p, Scope(k))
  OBVIOUS
<1>v. PICK v : v = g.vertices[k.label]
  OBVIOUS
<1>h. PICK h : h = CfgOf(p, Scope(next))
  OBVIOUS
<1>0. LabelsAreApart(p) /\ BranchesLeadApart(p)
  BY DEF CoveredPrograms
<1>1. /\ WellFormed(p) /\ Scope(k) \in DOMAIN p.scopes /\ WellFormedVertex(p, Scope(k), k.label)
      /\ g.type \in {"PROGRAM", "FUNCTION_BLOCK"}
      /\ v.type \in {"ENTRY", "REGULAR", "EXIT"} /\ (v.type # "REGULAR" => v.op = "none")
      /\ v.op \in {"none", "assign", "havoc", "if", "call"}
      /\ v.op = "if" => IsExpression(v.cond)
      /\ \A ref \in References(v) : Flatten(Scope(k), ref) \in FlattenedInterface(p)
  BY <1>g, <1>v, RunVertex
<1>2. StepAt(p, w, k, g, v)
  BY <1>1, <1>g, <1>v, ConcreteSteps
<1>3. /\ k = [cycle |-> k.cycle, label |-> k.label, stack |-> k.stack, env |-> k.env, taken |-> k.taken]
      /\ k.label \in DOMAIN g.vertices /\ k.env \in [FlattenedInterface(p) -> BOOLEAN]
  BY <1>g DEF RunOK, AtVertex
<1>4. RunOK(p, next)
  BY RunStepOK
<1>5. Scope(next) \in DOMAIN p.scopes
  BY <1>4, RunVertex
<1>6. ASSUME NEW e \in h.edges, e.type \in {"TRUE_BRANCH", "FALSE_BRANCH"}, e.src = k.label
      PROVE  v.op = "if"
  <2>1. e.src \in DOMAIN h.vertices /\ h.vertices[e.src].op = "if"
    BY <1>1, <1>5, <1>6, <1>h DEF WellFormed
  <2>2. h.vertices[k.label] = g.vertices[k.label]
    BY <1>0, <1>1, <1>3, <1>5, <1>6, <1>g, <1>h, <2>1 DEF LabelsAreApart
  <2> QED BY <1>6, <1>v, <2>1, <2>2
<1>7. CASE v.op # "if"
  <2>1. BranchesTaken(h, k.label, next.label) = {}
    BY <1>6, <1>7 DEF BranchesTaken, OutgoingEdges
  <2>2. next.taken = k.taken
    <3>1. CASE v.type = "ENTRY" \/ (v.type = "REGULAR" /\ v.op = "none")
      BY <1>2, <1>3, <3>1 DEF StepAt, Passed
    <3>2. CASE v.type = "EXIT" /\ g.type = "FUNCTION_BLOCK"
      BY <1>2, <1>3, <3>2 DEF StepAt, Returned
    <3>3. CASE v.op = "assign"
      BY <1>2, <1>3, <3>3 DEF StepAt, Written
    <3>4. CASE v.op = "havoc"
      BY <1>2, <1>3, <3>4 DEF StepAt, Written
    <3>5. CASE v.op = "call"
      BY <1>2, <1>3, <3>5 DEF StepAt, Called
    <3>6. CASE v.type = "EXIT" /\ g.type = "PROGRAM"
      BY <1>2, <1>3, <3>6 DEF StepAt, ConcreteNextCycle
    <3> QED BY <1>1, <1>7, <3>1, <3>2, <3>3, <3>4, <3>5, <3>6
  <2> QED BY <1>h, <2>1, <2>2
<1>8. CASE v.op = "if"
  <2>1. PICK b : b = Evaluate(k, v.cond)
    OBVIOUS
  <2>2. b \in BOOLEAN
    <3>1. IsExpression(v.cond) /\ \A ref \in ArgumentsOf(v.cond) : Flatten(Scope(k), ref) \in FlattenedInterface(p)
      BY <1>1, <1>8 DEF References
    <3> QED BY <1>3, <2>1, <3>1, EvaluatesToBoolean
  <2>3. PICK type : type = IF b THEN "TRUE_BRANCH" ELSE "FALSE_BRANCH"
    OBVIOUS
  <2>4. next = Branched(k, b, Target(g, k.label, type))
    BY <1>2, <1>8, <2>1, <2>3 DEF StepAt
  <2>5. /\ next.taken = k.taken \cup {<<k.label, b>>} /\ next.stack = k.stack
        /\ next.label = Target(g, k.label, type)
    BY <1>3, <2>4 DEF Branched
  <2>6. h = g
    BY <1>g, <1>h, <2>5 DEF Scope
  <2>7. PICK e \in OutgoingEdges(g, k.label) : e.type = type /\ e.dst = next.label
    <3>1. \E e \in OutgoingEdges(g, k.label) : e.type = type
      BY <1>1, <1>8, <1>g, <1>v, <2>3 DEF WellFormedVertex, Leads
    <3> QED BY <2>5, <3>1 DEF Target
  <2>8. type \in {"TRUE_BRANCH", "FALSE_BRANCH"} /\ (b <=> type = "TRUE_BRANCH")
    BY <2>2, <2>3
  <2>9. ASSUME NEW f \in OutgoingEdges(g, k.label), f.dst = next.label,
               f.type \in {"TRUE_BRANCH", "FALSE_BRANCH"}
        PROVE  f.type = type
    BY <1>0, <1>1, <1>g, <2>7, <2>8, <2>9 DEF BranchesLeadApart, BranchEdges, OutgoingEdges
  <2>10. BranchesTaken(g, k.label, next.label) = {<<k.label, b>>}
    <3>1. \A f : (/\ f \in OutgoingEdges(g, k.label) /\ f.dst = next.label
                  /\ f.type \in {"TRUE_BRANCH", "FALSE_BRANCH"})
                    => (f.type = "TRUE_BRANCH") = b
      BY <2>2, <2>8, <2>9
    <3>2. /\ e \in OutgoingEdges(g, k.label) /\ e.dst = next.label
          /\ e.type \in {"TRUE_BRANCH", "FALSE_BRANCH"}
      BY <2>7, <2>8
    <3> QED BY <3>1, <3>2 DEF BranchesTaken
  <2> QED BY <1>h, <2>5, <2>6, <2>10
<1> QED BY <1>7, <1>8

-----------------------------------------------------------------------------
(* The coverage that the engine records.                                   *)

(* The configuration that a context follows, and what it has taken.        *)
LEMMA FollowedConfiguration ==
  ASSUME RunsInv, NEW w \in Worlds(P), NEW c, Follows(c, w)
  PROVE  \E k : /\ OnTrace(w, k) /\ IsConfiguration(k) /\ Matches(c, w, k) /\ RunOK(P, k)
                /\ k.taken = TakenAt(c, w) /\ Position(k) = Position(c)
<1>1. PICK k : OnTrace(w, k) /\ IsConfiguration(k) /\ Matches(c, w, k)
  BY FollowsIff
<1>2. PICK pos : pos = Position(k)
  OBVIOUS
<1>3. pos = Position(c)
  BY <1>1, <1>2 DEF Matches, Position
<1>4. pos \in DOMAIN Trace[prog][w] /\ Trace[prog][w][pos] = k
  BY <1>1, <1>2 DEF OnTrace
<1>5. PICK at : at = RunAfter(Code[prog], w)
  OBVIOUS
<1>6. prog \in Programs /\ w \in Worlds(Code[prog])
  BY DEF RunsInv, Inv, ControlInv, EngineOK, P
<1>7. PICK i \in 0 .. MaxSteps : k = at[i]
  BY <1>4, <1>5, <1>6, OnTraceInRun
<1>8. PICK p : p = Code[prog]
  OBVIOUS
<1>9. RunOK(p, at[i])
  BY <1>5, <1>6, <1>8, RunIsOK
<1>10. RunOK(P, k)
  BY <1>7, <1>8, <1>9 DEF P
<1>11. k.taken = TakenAt(c, w)
  BY <1>3, <1>4 DEF TakenAt
<1> QED BY <1>1, <1>2, <1>3, <1>10, <1>11

(* What a step of the executor takes.                                      *)
LEMMA StepTaken ==
  ASSUME RunsInv, prog \in CoveredPrograms, NEW c \in explorer, Pop(c),
         NEW w \in PathWorlds(P, c), NEW d, StepsTo(c, d, w),
         NEW new, new = BranchesTaken(CfgOf(P, Scope(d)), c.label, d.label)
  PROVE  /\ TakenAt(d, w) = TakenAt(c, w) \cup new
         /\ d.cycle # c.cycle => new \subseteq TakenAt(c, w)
<1>1. /\ prog \in Programs /\ w \in Worlds(P) /\ Follows(c, w)
      /\ c.cycle = cycle /\ cycle # CycleBound
  BY PoppedFollows
<1>2. PICK k : /\ OnTrace(w, k) /\ IsConfiguration(k) /\ Matches(c, w, k) /\ RunOK(P, k)
               /\ k.taken = TakenAt(c, w)
  BY <1>1, FollowedConfiguration
<1>3. PICK next : next = ConcreteStep(P, w, k)
  OBVIOUS
<1>4. Matches(d, w, next)
  BY <1>2, <1>3 DEF StepsTo
<1>5. k.label = c.label /\ k.cycle = c.cycle
  BY <1>2 DEF Matches
<1>6. /\ next.label = d.label /\ next.cycle = d.cycle /\ Scope(next) = Scope(d)
      /\ Position(next) = Position(d)
  BY <1>4 DEF Matches, Scope, Position
<1>7. OnTrace(w, next)
  <2>1. PICK pos : pos = Position(k)
    OBVIOUS
  <2>2. pos \in DOMAIN Trace[prog][w] /\ Trace[prog][w][pos] = k
    BY <1>2, <2>1 DEF OnTrace
  <2>3. w \in Worlds(Code[prog]) /\ next = ConcreteStep(Code[prog], w, Trace[prog][w][pos])
    BY <1>1, <1>3, <2>2 DEF P
  <2>4. Trace[prog][w][pos].cycle # CycleBound
    BY <1>1, <1>5, <2>2
  <2> QED BY <1>1, <2>2, <2>3, <2>4, TraceStep DEF OnTrace
<1>8. TakenAt(d, w) = next.taken
  BY <1>6, <1>7 DEF TakenAt, OnTrace
<1>9. next.taken = k.taken \cup BranchesTaken(CfgOf(P, Scope(next)), k.label, next.label)
  <2>1. PICK p : p = Code[prog]
    OBVIOUS
  <2>2. P = p
    BY <2>1 DEF P
  <2>3. RunOK(p, k) /\ next = ConcreteStep(p, w, k)
    BY <1>2, <1>3, <2>2
  <2>4. next.taken = k.taken \cup BranchesTaken(CfgOf(p, Scope(next)), k.label, next.label)
    BY <1>1, <2>1, <2>3, StepTakes
  <2> QED BY <2>2, <2>4
<1>10. TakenAt(d, w) = TakenAt(c, w) \cup new
  BY <1>2, <1>5, <1>6, <1>8, <1>9
<1>11. ASSUME d.cycle # c.cycle
       PROVE  next.taken = k.taken
  <2>1. PICK p : p = Code[prog]
    OBVIOUS
  <2>2. RunOK(p, k) /\ next = ConcreteStep(p, w, k)
    BY <1>2, <1>3, <2>1 DEF P
  <2>3. Advances(p, k, next)
    BY <1>1, <2>1, <2>2, RunStepOK
  <2>4. next.cycle # k.cycle
    BY <1>5, <1>6, <1>11
  <2> QED BY <2>3, <2>4 DEF Advances
<1> QED BY <1>2, <1>8, <1>10, <1>11

-----------------------------------------------------------------------------
(* Contexts that only change places.                                       *)

(* What is covered stays covered.                                          *)
LEMMA CoveredKept ==
  ASSUME prog' = prog, branches \subseteq branches', NEW c, BranchesCovered(c)
  PROVE  BranchesCovered(c)'
<1>1. P' = P
  BY DEF P
<1>2. \A w : TakenAt(c, w)' = TakenAt(c, w)
  BY DEF TakenAt
<1> QED BY <1>1, <1>2 DEF BranchesCovered

(* So does what is covered but for the last branch.                        *)
LEMMA PendingKept ==
  ASSUME prog' = prog, cycle' = cycle, source' = source, branches \subseteq branches',
         NEW c, BranchesPending(c)
  PROVE  BranchesPending(c)'
<1>1. P' = P
  BY DEF P
<1>2. PICK new : new = BranchesTaken(CfgOf(P, Scope(c)), source, c.label)
  OBVIOUS
<1>3. ASSUME NEW w \in PathWorlds(P, c)
      PROVE  /\ TakenAt(c, w)' \subseteq branches' \cup new
             /\ new \subseteq TakenAt(c, w)'
             /\ c.cycle # cycle' => new \subseteq branches'
  <2>1. /\ TakenAt(c, w) \subseteq branches \cup new
        /\ new \subseteq TakenAt(c, w)
        /\ c.cycle # cycle => new \subseteq branches
    BY <1>2 DEF BranchesPending
  <2>2. TakenAt(c, w)' = TakenAt(c, w)
    BY DEF TakenAt
  <2> QED BY <2>1, <2>2
<1>4. new = BranchesTaken(CfgOf(P', Scope(c)), source', c.label) /\ PathWorlds(P', c) = PathWorlds(P, c)
  BY <1>1, <1>2
<1> QED BY <1>3, <1>4 DEF BranchesPending

(* The test cases still cover the branches when both are the same.         *)
LEMMA SuiteKept ==
  ASSUME SuiteCoversBranches, prog' = prog, branches' = branches, testSuite' = testSuite
  PROVE  SuiteCoversBranches'
<1>1. P' = P
  BY DEF P
<1>2. \A u, n : TakenBefore(u, n)' = TakenBefore(u, n)
  BY <1>1 DEF TakenBefore, CycleStart
<1> QED BY <1>2 DEF SuiteCoversBranches

(* Contexts move from one place to another.                                *)
LEMMA MovesCovered ==
  ASSUME CoverageInv, RunsInv', prog' = prog, branches' = branches, testSuite' = testSuite,
         phase \notin {"done", "summarize"}, phase' \notin {"done", "summarize"},
         pending' = <<>>,
         NEW all, all = explorer \cup InMerger \cup succeeding \cup RangeOf(held),
         explorer' \subseteq all, InMerger' \subseteq all, succeeding' \subseteq all,
         RangeOf(held') \subseteq all
  PROVE  CoverageInv'
<1>1. \A c \in all : BranchesCovered(c)
  BY DEF CoverageInv, BranchesAreRecorded
<1>2. \A c \in all : BranchesCovered(c)'
  BY <1>1, CoveredKept
<1>3. RangeOf(pending') = {}
  BY DEF RangeOf
<1>4. BranchesAreRecorded'
  BY <1>2, <1>3 DEF BranchesAreRecorded
<1> QED BY <1>4, SuiteKept DEF CoverageInv, CallIsRecorded, CoverageIsComplete

(* A step that leaves the contexts alone covers nothing.                   *)
LEMMA StutterCovered ==
  ASSUME CoverageInv, RunsInv', phase # "done" \/ timedOut' = timedOut,
         UNCHANGED <<prog, phase, cycle, explorer, merger, succeeding, held, pending, source,
                     branches, testSuite>>
  PROVE  CoverageInv'
<1>1. P' = P /\ InMerger' = InMerger
  BY DEF P, InMerger
<1>2. BranchesAreRecorded'
  <2>1. \A c : (BranchesCovered(c) => BranchesCovered(c)') /\ (BranchesPending(c) => BranchesPending(c)')
    BY CoveredKept, PendingKept
  <2> QED BY <1>1, <2>1 DEF CoverageInv, BranchesAreRecorded
<1>3. CallIsRecorded'
  <2>1. \A c, w : TakenAt(c, w)' = TakenAt(c, w)
    BY DEF TakenAt
  <2>2. CASE phase = "summarize"
    <3>1. PICK c, e : c = held[1] /\ e = Caller(held[1])
      OBVIOUS
    <3>2. source = c.label /\ \A w \in PathWorlds(P, c) : TakenAt(e, w) \subseteq branches
      BY <2>2, <3>1 DEF CoverageInv, CallIsRecorded
    <3>3. \A w \in PathWorlds(P', c) : TakenAt(e, w)' \subseteq branches'
      BY <1>1, <2>1, <3>2
    <3>4. c = held'[1] /\ e = Caller(held'[1])
      BY <3>1
    <3> QED BY <3>2, <3>3, <3>4 DEF CallIsRecorded
  <2> QED BY <2>2 DEF CallIsRecorded
<1>4. CoverageIsComplete'
  <2>1. \A w : TakenBefore(w, CycleBound)' = TakenBefore(w, CycleBound)
    BY <1>1 DEF TakenBefore, CycleStart
  <2> QED BY <1>1, <2>1 DEF CoverageInv, CoverageIsComplete
<1> QED BY <1>2, <1>3, <1>4, SuiteKept DEF CoverageInv

(* The next cycle.                                                         *)
LEMMA EndOfStepCovered ==
  ASSUME CoverageInv, RunsInv', EndOfStep
  PROVE  CoverageInv'
<1> PICK all : all = explorer \cup InMerger \cup succeeding \cup RangeOf(held)
  OBVIOUS
<1>1. /\ prog' = prog /\ branches' = branches /\ testSuite' = testSuite
      /\ phase = "step" /\ phase' = "run" /\ explorer' = succeeding /\ succeeding' = {}
      /\ merger' = merger /\ held' = held /\ pending' = pending
  BY DEF EndOfStep, coverageVars
<1>2. pending = <<>>
  BY <1>1 DEF CoverageInv, RunsInv, Inv, ControlInv, PhasesOK
<1>3. InMerger' = InMerger /\ RangeOf(held') = RangeOf(held)
  BY <1>1 DEF InMerger
<1> QED BY <1>1, <1>2, <1>3, MovesCovered

(* The merger takes up the contexts of a merge point.                      *)
LEMMA BeginMergeCovered ==
  ASSUME CoverageInv, RunsInv', BeginMerge
  PROVE  CoverageInv'
<1> PICK all : all = explorer \cup InMerger \cup succeeding \cup RangeOf(held)
  OBVIOUS
<1>1. PICK m \in DOMAIN merger :
        held' = merger[m] /\ merger' = [merger EXCEPT ![m] = <<>>]
  BY DEF BeginMerge
<1>2. /\ prog' = prog /\ branches' = branches /\ testSuite' = testSuite
      /\ phase = "step" /\ phase' = "merge" /\ explorer' = explorer /\ succeeding' = succeeding
      /\ pending' = pending
  BY DEF BeginMerge, coverageVars
<1>3. pending = <<>>
  BY <1>2 DEF CoverageInv, RunsInv, Inv, ControlInv, PhasesOK
<1>4. InMerger' \subseteq InMerger
  <2>1. /\ DOMAIN merger' = DOMAIN merger
        /\ \A k \in DOMAIN merger : merger'[k] = IF k = m THEN <<>> ELSE merger[k]
    BY <1>1
  <2>2. \A k \in DOMAIN merger : RangeOf(merger'[k]) \subseteq RangeOf(merger[k])
    BY <2>1 DEF RangeOf
  <2> QED BY <2>1, <2>2 DEF InMerger
<1>5. RangeOf(held') \subseteq InMerger
  BY <1>1 DEF InMerger
<1> QED BY <1>2, <1>3, <1>4, <1>5, MovesCovered

(* It hands the merged one to the explorer.                                *)
LEMMA EndMergeCovered ==
  ASSUME CoverageInv, RunsInv', EndMerge
  PROVE  CoverageInv'
<1> PICK all : all = explorer \cup InMerger \cup succeeding \cup RangeOf(held)
  OBVIOUS
<1>1. /\ prog' = prog /\ branches' = branches /\ testSuite' = testSuite
      /\ phase = "merge" /\ phase' = "step" /\ explorer' = {held[1]} /\ held' = <<>>
      /\ merger' = merger /\ succeeding' = succeeding /\ pending' = pending /\ Len(held) = 1
  BY DEF EndMerge, coverageVars
<1>2. pending = <<>> /\ IsSeq(held) /\ held # <<>>
  BY <1>1 DEF CoverageInv, RunsInv, Inv, ControlInv, PhasesOK, EngineOK
<1>3. InMerger' = InMerger
  BY <1>1 DEF InMerger
<1>4. held[1] \in RangeOf(held) /\ RangeOf(held') = {}
  BY <1>1, <1>2, NonemptySeq DEF RangeOf
<1> QED BY <1>1, <1>2, <1>3, <1>4, MovesCovered

-----------------------------------------------------------------------------
(* The engine stops.                                                       *)

(* EPSILON leaves no branch out.                                           *)
LEMMA CoverageMetIsFull ==
  ASSUME CoverageInv, CoverageMet
  PROVE  Branches(P) \subseteq branches
<1>1. IsFiniteSet(Branches(P)) /\ Cardinality(Branches(P)) < 10000
  BY DEF CoverageInv, CoveredPrograms, FewBranches, P
<1> PICK left : left = Branches(P) \ branches
  OBVIOUS
<1>2. IsFiniteSet(left)
  BY <1>1, FS_Subset
<1>3. Cardinality(left) \in Nat /\ Cardinality(Branches(P)) \in Nat
  BY <1>1, <1>2, FS_CardinalityType
<1>4. 10000 * Cardinality(left) <= Cardinality(Branches(P))
  BY DEF CoverageMet, NearlyAll
<1>5. Cardinality(left) = 0
  BY <1>1, <1>3, <1>4
<1>6. left = {}
  BY <1>2, <1>5, FS_EmptySet
<1> QED BY <1>6

(* Then no run takes another one.                                          *)
LEMMA CoverageMetCovers ==
  ASSUME CoverageInv, CoverageMet, NEW w \in Worlds(P)
  PROVE  TakenBefore(w, CycleBound) \subseteq branches
<1>1. prog \in Programs
  BY DEF CoverageInv, CoveredPrograms
<1>2. TakenBefore(w, CycleBound) \subseteq Branches(P)
  BY <1>1, TakenAtTheEnd
<1> QED BY <1>2, CoverageMetIsFull

(* In the last cycle every run is at its end.                              *)
LEMMA BoundReached ==
  ASSUME CoverageInv, phase = "run", cycle >= CycleBound, NEW w \in Worlds(P)
  PROVE  TakenBefore(w, CycleBound) \subseteq branches
<1>1. /\ prog \in Programs /\ cycle = CycleBound
      /\ held = <<>> /\ pending = <<>> /\ succeeding = {}
  BY CycleBoundAssumption DEF CoverageInv, RunsInv, Inv, ControlInv, EngineOK, PhasesOK
<1>2. PICK a \in Places : w \in Share(a)
  <2>1. SharedOut(Worlds(P), Places, [place \in Places |-> Share(place)])
    BY DEF CoverageInv, RunsInv, WorldsAreSharedOut
  <2>2. PICK b \in Places : w \in [place \in Places |-> Share(place)][b]
    BY <2>1 DEF SharedOut
  <2> QED BY <2>2
<1>3. PICK c : c = ContextAt(a)
  OBVIOUS
<1>4. StandsFor(a) = c /\ w \in PathWorlds(P, c)
  BY <1>2, <1>3, PlainPlace
<1>5. c \in explorer \cup InMerger
  <2>1. c \in Live
    BY <1>3, LiveAtPlaces
  <2> QED BY <1>1, <2>1 DEF Live, RangeOf
<1>6. c.cycle = cycle
  BY <1>5 DEF CoverageInv, RunsInv, Inv, ControlInv, CyclesOK
<1>7. Follows(c, w)
  BY <1>2, <1>3, <1>4 DEF CoverageInv, RunsInv, ContextsFollowRuns
<1>8. Position(c) \in DOMAIN Trace[prog][w] /\ Position(c)[1] = CycleBound
  BY <1>1, <1>6, <1>7 DEF Follows, Position
<1>9. TakenAt(c, w) = TakenBefore(w, CycleBound)
  BY <1>1, <1>8, TakenAtTheEnd DEF TakenAt
<1>10. BranchesCovered(c)
  BY <1>5 DEF CoverageInv, BranchesAreRecorded
<1> QED BY <1>4, <1>9, <1>10 DEF BranchesCovered

(* The engine stops with the coverage that it has.                         *)
LEMMA DoneCovered ==
  ASSUME CoverageInv, RunsInv', prog' = prog, branches' = branches, testSuite' = testSuite,
         timedOut' = timedOut, phase' = "done",
         ~timedOut => \A w \in Worlds(P) : TakenBefore(w, CycleBound) \subseteq branches
  PROVE  CoverageInv'
<1>1. P' = P
  BY DEF P
<1>2. \A w : TakenBefore(w, CycleBound)' = TakenBefore(w, CycleBound)
  BY <1>1 DEF TakenBefore, CycleStart
<1>3. CoverageIsComplete'
  BY <1>1, <1>2 DEF CoverageIsComplete
<1> QED BY <1>3, SuiteKept DEF CoverageInv, BranchesAreRecorded, CallIsRecorded

(* By the termination criteria of Engine::run.                             *)
LEMMA RunLoopCovered ==
  ASSUME CoverageInv, RunsInv', RunLoop
  PROVE  CoverageInv'
<1> PICK all : all = explorer \cup InMerger \cup succeeding \cup RangeOf(held)
  OBVIOUS
<1>1. /\ prog' = prog /\ branches' = branches /\ testSuite' = testSuite /\ timedOut' = timedOut
      /\ phase = "run" /\ explorer' = explorer /\ merger' = merger /\ succeeding' = succeeding
      /\ held' = held /\ pending' = pending
      /\ phase' = IF TerminationCriteriaMet THEN "done" ELSE "step"
  BY DEF RunLoop, contextVars, coverageVars
<1>2. CASE TerminationCriteriaMet
  <2>1. ~timedOut => \A w \in Worlds(P) : TakenBefore(w, CycleBound) \subseteq branches
    BY <1>1, <1>2, BoundReached, CoverageMetCovers DEF TerminationCriteriaMet
  <2> QED BY <1>1, <1>2, <2>1, DoneCovered
<1>3. CASE ~TerminationCriteriaMet
  <2>1. pending = <<>>
    BY <1>1 DEF CoverageInv, RunsInv, Inv, ControlInv, PhasesOK
  <2>2. InMerger' = InMerger /\ RangeOf(held') = RangeOf(held)
    BY <1>1 DEF InMerger
  <2> QED BY <1>1, <1>3, <2>1, <2>2, MovesCovered
<1> QED BY <1>2, <1>3

(* By those of Engine::step.                                               *)
LEMMA LocalTerminationCovered ==
  ASSUME CoverageInv, RunsInv', LocalTermination
  PROVE  CoverageInv'
<1>1. /\ prog' = prog /\ branches' = branches /\ testSuite' = testSuite /\ timedOut' = timedOut
      /\ phase' = "done" /\ LocalTerminationCriteriaMet
  BY DEF LocalTermination, coverageVars
<1>2. ~timedOut => \A w \in Worlds(P) : TakenBefore(w, CycleBound) \subseteq branches
  BY <1>1, CoverageMetCovers DEF LocalTerminationCriteriaMet
<1> QED BY <1>1, <1>2, DoneCovered

-----------------------------------------------------------------------------
(* The executor.                                                           *)

(* The branch of a step is not covered until its context is dispatched.    *)
LEMMA ExecutesStepCovered ==
  ASSUME CoverageInv, RunsInv', ExecutesStep
  PROVE  CoverageInv'
<1>1. PICK c \in explorer : Pop(c) /\ \E contexts : Return(contexts) /\ StepsAlong(c, contexts)
  BY DEF ExecutesStep
<1>2. PICK contexts : Return(contexts) /\ StepsAlong(c, contexts)
  BY <1>1
<1>3. /\ prog' = prog /\ P' = P /\ branches' = branches /\ testSuite' = testSuite
      /\ cycle' = cycle /\ phase = "step" /\ phase' = "dispatch" /\ explorer' = explorer \ {c}
      /\ merger' = merger /\ succeeding' = succeeding /\ held' = held /\ pending' = contexts
      /\ source' = c.label
  BY <1>1, <1>2 DEF Pop, Return, coverageVars, P
<1>4. RunsInv /\ prog \in CoveredPrograms
  BY DEF CoverageInv
<1>5. \A e \in explorer \cup InMerger \cup succeeding \cup RangeOf(held) : BranchesCovered(e)
  BY <1>3 DEF CoverageInv, BranchesAreRecorded
<1>6. c.cycle = cycle
  BY <1>1, <1>4, PoppedFollows
<1>7. ASSUME NEW d \in RangeOf(contexts)
      PROVE  BranchesPending(d)'
  <2>1. PICK i \in DOMAIN contexts : d = contexts[i]
    BY DEF RangeOf
  <2>2. PICK new : new = BranchesTaken(CfgOf(P, Scope(d)), c.label, d.label)
    OBVIOUS
  <2>3. ASSUME NEW w \in PathWorlds(P, d)
        PROVE  /\ TakenAt(d, w)' \subseteq branches' \cup new
               /\ new \subseteq TakenAt(d, w)'
               /\ d.cycle # cycle' => new \subseteq branches'
    <3>1. w \in PathWorlds(P, c) /\ StepsTo(c, d, w)
      BY <1>2, <2>1 DEF StepsAlong
    <3>2. /\ TakenAt(d, w) = TakenAt(c, w) \cup new
          /\ d.cycle # c.cycle => new \subseteq TakenAt(c, w)
      BY <1>1, <1>4, <2>2, <3>1, StepTaken
    <3>3. TakenAt(c, w) \subseteq branches
      BY <1>5, <3>1 DEF BranchesCovered
    <3>4. TakenAt(d, w)' = TakenAt(d, w)
      BY <1>3 DEF TakenAt
    <3> QED BY <1>3, <1>6, <3>2, <3>3, <3>4
  <2>4. new = BranchesTaken(CfgOf(P', Scope(d)), source', d.label)
        /\ PathWorlds(P', d) = PathWorlds(P, d)
    BY <1>3, <2>2
  <2> QED BY <2>3, <2>4 DEF BranchesPending
<1>8. InMerger' = InMerger
  BY <1>3 DEF InMerger
<1>9. \A e : BranchesCovered(e) => BranchesCovered(e)'
  BY <1>3, CoveredKept
<1>10. BranchesAreRecorded'
  BY <1>3, <1>5, <1>7, <1>8, <1>9 DEF BranchesAreRecorded
<1>11. SuiteCoversBranches'
  BY <1>3, SuiteKept DEF CoverageInv
<1> QED BY <1>3, <1>4, <1>10, <1>11 DEF CoverageInv, CallIsRecorded, CoverageIsComplete

(* A call waits with what its caller has covered.                          *)
LEMMA WaitsAtCallCovered ==
  ASSUME CoverageInv, RunsInv', WaitsAtCall
  PROVE  CoverageInv'
<1>1. PICK c \in explorer : \E callee :
        /\ Pop(c) /\ CallsInto(c, callee) /\ Caller(callee) = c /\ callee.label = c.label
        /\ PathWorlds(P, callee) = PathWorlds(P, c)
        /\ held' = <<callee>> /\ phase' = "summarize" /\ pending' = pending
  BY DEF WaitsAtCall
<1>2. PICK callee :
        /\ Pop(c) /\ CallsInto(c, callee) /\ Caller(callee) = c /\ callee.label = c.label
        /\ PathWorlds(P, callee) = PathWorlds(P, c)
        /\ held' = <<callee>> /\ phase' = "summarize" /\ pending' = pending
  BY <1>1
<1>3. /\ prog' = prog /\ P' = P /\ branches' = branches /\ testSuite' = testSuite
      /\ phase = "step" /\ explorer' = explorer \ {c}
      /\ merger' = merger /\ succeeding' = succeeding /\ source' = c.label
  BY <1>2 DEF Pop, coverageVars, P
<1>4. RunsInv /\ prog \in CoveredPrograms
  BY DEF CoverageInv
<1>5. \A e \in explorer \cup InMerger \cup succeeding : BranchesCovered(e)
  BY <1>3 DEF CoverageInv, BranchesAreRecorded
<1>6. pending' = <<>>
  BY <1>2, <1>3, <1>4 DEF RunsInv, Inv, ControlInv, PhasesOK
<1>7. InMerger' = InMerger /\ RangeOf(pending') = {}
  BY <1>3, <1>6 DEF InMerger, RangeOf
<1>8. \A e : BranchesCovered(e) => BranchesCovered(e)'
  BY <1>3, CoveredKept
<1>9. BranchesAreRecorded'
  BY <1>2, <1>3, <1>5, <1>7, <1>8 DEF BranchesAreRecorded
<1>10. CallIsRecorded'
  <2>1. held'[1] = callee
    BY <1>2
  <2>2. \A w : TakenAt(c, w)' = TakenAt(c, w)
    BY <1>3 DEF TakenAt
  <2>3. \A w \in PathWorlds(P, callee) : TakenAt(c, w) \subseteq branches
    BY <1>2, <1>5 DEF BranchesCovered
  <2>4. \A w \in PathWorlds(P', callee) : TakenAt(c, w)' \subseteq branches'
    BY <1>3, <2>2, <2>3
  <2>5. callee = held'[1] /\ c = Caller(held'[1]) /\ source' = callee.label
    BY <1>2, <1>3, <2>1
  <2> QED BY <2>4, <2>5 DEF CallIsRecorded
<1>11. SuiteCoversBranches'
  BY <1>3, SuiteKept DEF CoverageInv
<1> QED BY <1>2, <1>3, <1>4, <1>9, <1>10, <1>11 DEF CoverageInv, CoverageIsComplete

-----------------------------------------------------------------------------
(* Merging.                                                                *)

(* Merged contexts are at the same position and have covered the same.     *)
LEMMA MergePairCovered ==
  ASSUME CoverageInv, RunsInv', MergePair
  PROVE  CoverageInv'
<1>1. PICK c1, c2 : c1 = held[1] /\ c2 = held[2]
  OBVIOUS
<1>2. PICK d, n : d = Merge(P, version, c1, c2) /\ n = Len(held)
  OBVIOUS
<1>3. /\ prog' = prog /\ branches' = branches /\ testSuite' = testSuite
      /\ phase = "merge" /\ phase' = "merge" /\ n > 1
      /\ explorer' = explorer /\ merger' = merger /\ succeeding' = succeeding
      /\ pending' = pending /\ held' = <<d>> \o SubSeq(held, 3, n)
  BY <1>1, <1>2 DEF MergePair, coverageVars
<1>4. RunsInv /\ IsSeq(held) /\ pending = <<>> /\ prog \in CoveredPrograms
  BY <1>3 DEF CoverageInv, RunsInv, Inv, ControlInv, EngineOK, PhasesOK
<1>5. /\ PathWorlds(P, d) = PathWorlds(P, c1) \cup PathWorlds(P, c2)
      /\ Position(d) = Position(c1) /\ Position(d) = Position(c2)
  BY <1>1, <1>2, <1>3, <1>4, MergedFollows
<1>6. c1 \in RangeOf(held) /\ c2 \in RangeOf(held)
  BY <1>1, <1>2, <1>3, <1>4 DEF IsSeq, RangeOf
<1>7. \A e \in explorer \cup InMerger \cup succeeding \cup RangeOf(held) : BranchesCovered(e)
  BY <1>3 DEF CoverageInv, BranchesAreRecorded
<1>8. BranchesCovered(d)
  <2>1. \A w : TakenAt(d, w) = TakenAt(c1, w) /\ TakenAt(d, w) = TakenAt(c2, w)
    BY <1>5 DEF TakenAt
  <2>2. BranchesCovered(c1) /\ BranchesCovered(c2)
    BY <1>6, <1>7
  <2> QED BY <1>5, <2>1, <2>2 DEF BranchesCovered
<1>9. RangeOf(held') \subseteq RangeOf(held) \cup {d}
  <2>1. n \in Nat /\ n > 1 /\ held \in Seq(RangeOf(held))
    BY <1>2, <1>3, <1>4 DEF IsSeq
  <2>2. PICK S : S = RangeOf(held) \cup {d}
    OBVIOUS
  <2>3. PICK t : t = SubSeq(held, 3, n)
    OBVIOUS
  <2>4. t \in Seq(RangeOf(held))
    BY <1>2, <2>1, <2>3
  <2>5. t \in Seq(S) /\ <<d>> \in Seq(S)
    BY <2>2, <2>4
  <2>6. held' = <<d>> \o t
    BY <1>3, <2>3
  <2>7. held' \in Seq(S)
    BY <2>5, <2>6
  <2> QED BY <2>2, <2>7 DEF RangeOf
<1>10. \A e : BranchesCovered(e) => BranchesCovered(e)'
  BY <1>3, CoveredKept
<1>11. InMerger' = InMerger /\ RangeOf(pending') = {}
  BY <1>3, <1>4 DEF InMerger, RangeOf
<1>12. BranchesAreRecorded'
  BY <1>3, <1>7, <1>8, <1>9, <1>10, <1>11 DEF BranchesAreRecorded
<1>13. SuiteCoversBranches'
  BY <1>3, SuiteKept DEF CoverageInv
<1> QED BY <1>3, <1>4, <1>12, <1>13 DEF CoverageInv, CallIsRecorded, CoverageIsComplete

-----------------------------------------------------------------------------
(* The start.                                                              *)

(* At the start no branch has been taken.                                  *)
LEMMA InitCovered ==
  ASSUME Init, RunsInv, prog \in CoveredPrograms
  PROVE  CoverageInv
<1>1. /\ phase = "run" /\ explorer = {InitialContext(P)} /\ succeeding = {} /\ branches = {}
      /\ merger = [m \in MergePoints(P) |-> <<>>] /\ held = <<>> /\ pending = <<>>
  BY DEF Init
<1>2. InMerger = {} /\ RangeOf(held) = {} /\ RangeOf(pending) = {}
  BY <1>1 DEF InMerger, RangeOf
<1> PICK c : c = InitialContext(P)
  OBVIOUS
<1>3. BranchesCovered(c)
  <2> SUFFICES ASSUME NEW w \in PathWorlds(P, c)
               PROVE  TakenAt(c, w) \subseteq branches
    BY DEF BranchesCovered
  <2>1. w \in Worlds(P) /\ prog \in Programs
    BY SatisfyingAt DEF PathWorlds, RunsInv, Inv, ControlInv, EngineOK
  <2>2. PICK k : k = InitialConfiguration(P, w)
    OBVIOUS
  <2>3. k.taken = {} /\ Position(k) = Position(c)
    BY <2>2 DEF InitialConfiguration, InitialContext, Position
  <2>4. Trace[prog][w][Position(k)] = k
    <3>1. k = InitialConfiguration(Code[prog], w) /\ w \in Worlds(Code[prog])
      BY <2>1, <2>2 DEF P
    <3> QED BY <2>1, <3>1, TraceStart
  <2>5. TakenAt(c, w) = {}
    BY <2>3, <2>4 DEF TakenAt
  <2> QED BY <2>5
<1>4. BranchesAreRecorded
  BY <1>1, <1>2, <1>3 DEF BranchesAreRecorded
<1> QED BY <1>1, <1>4 DEF CoverageInv, CallIsRecorded, SuiteCoversBranches, CoverageIsComplete

-----------------------------------------------------------------------------
(* Test cases.                                                             *)

(* The inputs of a run up to the current cycle cover what it has taken.    *)
LEMMA TestCaseCovers ==
  ASSUME RunsInv, SuiteCoversBranches, prog' = prog, cycle < CycleBound,
         NEW c, c.cycle = cycle, NEW w \in Worlds(P), NEW d, d.cycle = cycle, Follows(d, w),
         NEW new, new \subseteq TakenAt(d, w), branches' = branches \cup new,
         testSuite' = testSuite \cup {TestCase(c, w)}
  PROVE  SuiteCoversBranches'
<1>1. PICK u, t : u = {k \in w : k[1] <= cycle} /\ t = TestCase(c, w)
  OBVIOUS
<1>2. t.inputs = u /\ t.cycles = 0 .. cycle /\ testSuite' = testSuite \cup {t}
  BY <1>1 DEF TestCase
<1>3. prog \in Programs /\ cycle \in Nat
  BY CycleBoundAssumption DEF RunsInv, Inv, ControlInv, EngineOK
<1>4. Cardinality(t.cycles) = cycle + 1
  <2>1. 0 \in Int /\ cycle \in Int /\ ~(0 > cycle)
    BY <1>3
  <2>2. Cardinality(0 .. cycle) = IF 0 > cycle THEN 0 ELSE cycle - 0 + 1
    BY <2>1, FS_Interval, Zenon
  <2> QED BY <1>2, <1>3, <2>1, <2>2
<1>5. InputsUpTo(w, u, cycle)
  BY <1>1 DEF InputsUpTo
<1>6. PICK pos : pos = Position(d)
  OBVIOUS
<1>7. PICK k : k = Trace[prog][w][pos]
  OBVIOUS
<1>8. pos \in DOMAIN Trace[prog][w] /\ k.cycle = cycle /\ k.taken = TakenAt(d, w)
  BY <1>6, <1>7 DEF Follows, TakenAt
<1>9. k.taken \subseteq TakenBefore(u, cycle + 1)
  BY <1>3, <1>5, <1>7, <1>8, TakenByTestCase
<1>10. P' = P
  BY DEF P
<1>11. \A v, n : TakenBefore(v, n)' = TakenBefore(v, n)
  BY <1>10 DEF TakenBefore, CycleStart
<1>12. ASSUME NEW b \in branches \cup new
       PROVE  \E s \in testSuite \cup {t} : b \in TakenBefore(s.inputs, Cardinality(s.cycles))
  <2>1. CASE b \in branches
    BY <2>1 DEF SuiteCoversBranches
  <2>2. CASE b \in new
    BY <1>2, <1>4, <1>8, <1>9, <2>2
  <2> QED BY <2>1, <2>2
<1> QED BY <1>2, <1>11, <1>12 DEF SuiteCoversBranches

(* The coverage grows by what the runs of a context have taken.            *)
LEMMA SuiteGrows ==
  ASSUME RunsInv, SuiteCoversBranches, prog' = prog, cycle < CycleBound,
         NEW c, NEW d, NEW new, branches' = branches \cup new,
         new \subseteq branches => testSuite' = testSuite,
         ~(new \subseteq branches) =>
            \E w \in PathWorlds(P, c) : testSuite' = testSuite \cup {TestCase(c, w)},
         \A w \in PathWorlds(P, c) : /\ w \in Worlds(P) /\ Follows(d, w)
                                     /\ new \subseteq TakenAt(d, w)
                                     /\ ~(new \subseteq branches) => c.cycle = cycle /\ d.cycle = cycle
  PROVE  SuiteCoversBranches'
<1>1. CASE new \subseteq branches
  <2>1. branches' = branches
    BY <1>1
  <2> QED BY <1>1, <2>1, SuiteKept
<1>2. CASE ~(new \subseteq branches)
  <2>1. PICK w \in PathWorlds(P, c) : testSuite' = testSuite \cup {TestCase(c, w)}
    BY <1>2
  <2>2. /\ w \in Worlds(P) /\ Follows(d, w) /\ new \subseteq TakenAt(d, w)
        /\ c.cycle = cycle /\ d.cycle = cycle
    BY <1>2
  <2> QED BY <2>1, <2>2, TestCaseCovers
<1> QED BY <1>1, <1>2

-----------------------------------------------------------------------------
(* The loop over the succeeding contexts.                                  *)

(* A succeeding context covers the branch that leads to it, with a test    *)
(* case of its own.                                                        *)
LEMMA DispatchCovered ==
  ASSUME CoverageInv, RunsInv', Dispatch
  PROVE  CoverageInv'
<1>1. PICK c, new : c = Head(pending) /\ new = BranchesTaken(CfgOf(P, Scope(c)), source, c.label)
  OBVIOUS
<1>2. /\ prog' = prog /\ phase = "dispatch" /\ phase' \in {"dispatch", "step"} /\ held' = held
      /\ cycle' = cycle /\ source' = source /\ pending # <<>> /\ pending' = Tail(pending)
      /\ branches' = branches \cup new
      /\ new \subseteq branches => testSuite' = testSuite
      /\ ~(new \subseteq branches) =>
            \E w \in PathWorlds(P, c) : testSuite' = testSuite \cup {TestCase(c, w)}
      /\ \/ /\ ReachedMergePoint(c)
            /\ merger' = [merger EXCEPT ![MergePoint(c)] = Append(@, c)]
            /\ explorer' = explorer /\ succeeding' = succeeding
         \/ /\ explorer' = explorer \cup {c}
            /\ merger' = merger /\ succeeding' = succeeding
         \/ /\ succeeding' = {c} /\ explorer' = explorer /\ merger' = merger
  BY <1>1 DEF Dispatch, DeriveTestCase
<1>3. /\ RunsInv /\ IsSeq(pending) /\ prog \in CoveredPrograms /\ SuiteCoversBranches
      /\ cycle < CycleBound /\ \A m \in DOMAIN merger : IsSeq(merger[m])
  BY <1>2 DEF CoverageInv, RunsInv, Inv, ControlInv, EngineOK
<1>4. c \in RangeOf(pending) /\ RangeOf(pending') \subseteq RangeOf(pending) /\ DOMAIN pending = 1 .. Len(pending)
      /\ c = pending[1] /\ 1 \in DOMAIN pending
  BY <1>1, <1>2, <1>3 DEF IsSeq, RangeOf
<1>5. \A e \in explorer \cup InMerger \cup succeeding \cup RangeOf(held) : BranchesCovered(e)
  BY <1>2 DEF CoverageInv, BranchesAreRecorded
<1>6. \A e \in RangeOf(pending) : BranchesPending(e)
  BY <1>2 DEF CoverageInv, BranchesAreRecorded
<1>7. \A w \in PathWorlds(P, c) : /\ TakenAt(c, w) \subseteq branches'
                                  /\ new \subseteq TakenAt(c, w)
                                  /\ c.cycle # cycle => new \subseteq branches
  BY <1>1, <1>2, <1>4, <1>6 DEF BranchesPending
<1>8. BranchesCovered(c)'
  <2>1. P' = P
    BY <1>2 DEF P
  <2>2. \A w : TakenAt(c, w)' = TakenAt(c, w)
    BY <1>2 DEF TakenAt
  <2> QED BY <1>7, <2>1, <2>2 DEF BranchesCovered
<1>9. InMerger' \subseteq InMerger \cup {c}
  <2>1. CASE merger' = merger
    BY <2>1 DEF InMerger
  <2>2. CASE merger' = [merger EXCEPT ![MergePoint(c)] = Append(@, c)] /\ ReachedMergePoint(c)
    <3>1. PICK m \in DOMAIN merger : m = MergePoint(c)
      BY <2>2 DEF ReachedMergePoint
    <3>2. /\ DOMAIN merger' = DOMAIN merger /\ merger'[m] = Append(merger[m], c)
          /\ \A k \in DOMAIN merger : k # m => merger'[k] = merger[k]
      BY <2>2, <3>1
    <3>3. RangeOf(Append(merger[m], c)) \subseteq RangeOf(merger[m]) \cup {c}
      <4>1. PICK s, S : s = merger[m] /\ S = RangeOf(merger[m])
        OBVIOUS
      <4>2. s \in Seq(S)
        BY <1>3, <4>1 DEF IsSeq
      <4>3. Append(s, c) \in Seq(S \cup {c})
        <5>1. s \in Seq(S \cup {c})
          BY <4>2
        <5> QED BY <5>1
      <4> QED BY <4>1, <4>3 DEF RangeOf
    <3>4. \A k \in DOMAIN merger : RangeOf(merger'[k]) \subseteq RangeOf(merger[k]) \cup {c}
      BY <3>2, <3>3
    <3> QED BY <3>2, <3>4 DEF InMerger
  <2> QED BY <1>2, <2>1, <2>2
<1>10. BranchesAreRecorded'
  <2>1. \A e : BranchesCovered(e) => BranchesCovered(e)'
    BY <1>2, CoveredKept
  <2>2. \A e : BranchesPending(e) => BranchesPending(e)'
    BY <1>2, PendingKept
  <2>3. \A e \in explorer' \cup InMerger' \cup succeeding' \cup RangeOf(held') : BranchesCovered(e)'
    BY <1>2, <1>5, <1>8, <1>9, <2>1
  <2>4. \A e \in RangeOf(pending') : BranchesPending(e)'
    BY <1>4, <1>6, <2>2
  <2> QED BY <2>3, <2>4 DEF BranchesAreRecorded
<1>11. SuiteCoversBranches'
  <2>1. <<"pending", 0, 1>> \in Places /\ ContextAt(<<"pending", 0, 1>>) = c
    BY <1>4, PlaceForms, ContextForms
  <2>2. StandsFor(<<"pending", 0, 1>>) = c
    BY <1>2, <2>1, PlainPlace
  <2>3. \A w \in PathWorlds(P, c) : Follows(c, w)
    BY <1>3, <2>1, <2>2 DEF RunsInv, ContextsFollowRuns
  <2>4. \A w \in PathWorlds(P, c) : w \in Worlds(P)
    BY SatisfyingAt DEF PathWorlds
  <2>5. \A w \in PathWorlds(P, c) :
          /\ w \in Worlds(P) /\ Follows(c, w) /\ new \subseteq TakenAt(c, w)
          /\ ~(new \subseteq branches) => c.cycle = cycle /\ c.cycle = cycle
    BY <1>7, <2>3, <2>4
  <2> QED BY <1>2, <1>3, <2>5, SuiteGrows
<1> QED BY <1>2, <1>3, <1>10, <1>11 DEF CoverageInv, CallIsRecorded, CoverageIsComplete

-----------------------------------------------------------------------------
(* The loop over the applicable summaries.                                 *)

(* The branches of the first n steps along a path.                         *)
TakenAlong(g, path, n) == UNION {BranchesTaken(g, path[i], path[i + 1]) : i \in 1 .. n}

(* No branch leads to the entry that the path of a summary starts at.      *)
LEMMA PathTaken ==
  ASSUME NEW g, NEW s, StartsAtEntry(g, s), NEW l, NEW path, path = <<l>> \o s.literals
  PROVE  TakenAlong(g, path, Len(s.literals)) = BranchesAlong(g, s.literals)
<1>1. PICK t, n, S : t = s.literals /\ n = Len(t) /\ S = RangeOf(t) \cup {l}
  OBVIOUS
<1>2. t \in Seq(S) /\ n \in Nat /\ n >= 1 /\ t[1] = g.entry
  BY <1>1 DEF StartsAtEntry, IsSeq
<1>3. path[1] = l /\ \A i \in 1 .. n : path[i + 1] = t[i]
  <2>1. path = <<l>> \o t /\ <<l>> \in Seq(S) /\ Len(<<l>>) = 1 /\ <<l>>[1] = l
    BY <1>1
  <2>2. PICK m : m = <<l>>
    OBVIOUS
  <2>3. /\ path = m \o t /\ m \in Seq(S) /\ Len(m) = 1 /\ m[1] = l /\ t \in Seq(S) /\ n = Len(t)
    BY <1>1, <1>2, <2>1, <2>2
  <2> HIDE DEF RangeOf
  <2>4. path[1] = l
    BY <2>3
  <2>5. ASSUME NEW i \in 1 .. n
        PROVE  path[i + 1] = t[i]
    <3>1. i + 1 \in 1 .. Len(m) + Len(t) /\ ~(i + 1 <= Len(m)) /\ (i + 1) - Len(m) = i
      BY <1>2, <2>3
    <3>2. \A j \in 1 .. Len(m) + Len(t) :
            (m \o t)[j] = IF j <= Len(m) THEN m[j] ELSE t[j - Len(m)]
      BY <2>3, ConcatProperties
    <3> QED BY <2>3, <3>1, <3>2, Zenon
  <2> QED BY <2>4, <2>5
<1>4. BranchesTaken(g, path[1], path[2]) = {}
  <2>1. path[2] = g.entry
    <3>1. 1 \in 1 .. n /\ 1 + 1 = 2
      BY <1>2
    <3>2. path[1 + 1] = t[1]
      BY <1>3, <3>1
    <3> QED BY <1>2, <3>1, <3>2
  <2>2. \A e \in g.edges : e.type \in {"TRUE_BRANCH", "FALSE_BRANCH"} => e.dst # g.entry
    BY DEF StartsAtEntry, BranchEdges
  <2> QED BY <2>1, <2>2 DEF BranchesTaken, OutgoingEdges
<1>5. \A i \in 1 .. n - 1 : BranchesTaken(g, path[i + 1], path[i + 2]) = BranchesTaken(g, t[i], t[i + 1])
  <2> SUFFICES ASSUME NEW i \in 1 .. n - 1
               PROVE  path[i + 1] = t[i] /\ path[i + 2] = t[i + 1]
    OBVIOUS
  <2>1. i \in 1 .. n /\ i + 1 \in 1 .. n /\ (i + 1) + 1 = i + 2
    BY <1>2
  <2> QED BY <1>3, <2>1
<1>6. ASSUME NEW b
      PROVE  (\E i \in 1 .. n : b \in BranchesTaken(g, path[i], path[i + 1]))
               <=> \E i \in 1 .. n - 1 : b \in BranchesTaken(g, t[i], t[i + 1])
  <2>1. ASSUME NEW i \in 1 .. n, b \in BranchesTaken(g, path[i], path[i + 1])
        PROVE  \E j \in 1 .. n - 1 : b \in BranchesTaken(g, t[j], t[j + 1])
    <3>1. i # 1
      <4> SUFFICES ASSUME i = 1 PROVE FALSE
        OBVIOUS
      <4>1. PICK j : j = i + 1
        OBVIOUS
      <4>2. j = 2
        BY <4>1
      <4>3. b \in BranchesTaken(g, path[i], path[j])
        BY <2>1, <4>1
      <4>4. b \in BranchesTaken(g, path[1], path[2])
        BY <4>2, <4>3
      <4> QED BY <1>4, <4>4
    <3>2. PICK j : j = i - 1
      OBVIOUS
    <3>3. j \in 1 .. n - 1 /\ j + 1 = i /\ j + 2 = i + 1
      <4>1. n \in Nat /\ i \in Nat /\ 1 <= i /\ i <= n
        BY <1>2
      <4> QED BY <3>1, <3>2, <4>1
    <3>4. BranchesTaken(g, path[i], path[i + 1]) = BranchesTaken(g, t[j], t[j + 1])
      BY <1>5, <3>3
    <3> QED BY <2>1, <3>3, <3>4
  <2>2. ASSUME NEW i \in 1 .. n - 1, b \in BranchesTaken(g, t[i], t[i + 1])
        PROVE  \E j \in 1 .. n : b \in BranchesTaken(g, path[j], path[j + 1])
    <3>1. i + 1 \in 1 .. n /\ (i + 1) + 1 = i + 2
      BY <1>2
    <3> QED BY <1>5, <2>2, <3>1
  <2> QED BY <2>1, <2>2
<1> QED BY <1>1, <1>6 DEF BranchesAlong, TakenAlong

(* The run of a call takes the branches of the summary that applies.       *)
LEMMA SummaryTaken ==
  ASSUME RunsInv, prog \in CoveredPrograms, phase = "summarize",
         NEW c, c = held[1], NEW caller, caller = Caller(c),
         NEW k \in DOMAIN SummariesAt(P, c), NEW s, s = SummariesAt(P, c)[k],
         NEW w \in PathWorlds(P, c), Applies(c, w, k),
         NEW d, d.cycle = c.cycle, d.label = ReturnLabel(c), d.stack = caller.stack
  PROVE  TakenAt(d, w) = TakenAt(caller, w) \cup BranchesAlong(CfgOf(P, Scope(c)), s.literals)
<1>1. CallsInto(caller, c) /\ w \in Worlds(P) /\ Follows(caller, w)
  BY WaitingContext
<1>2. PICK q : OnTrace(w, q) /\ IsConfiguration(q) /\ Matches(caller, w, q) /\ q.taken = TakenAt(caller, w)
  BY <1>1, FollowedConfiguration
<1>3. DOMAIN P.summaries # {} => SummaryIsTaken(prog, w, q)
  <2>1. q \in RangeOf(Trace[prog][w])
    BY <1>2 DEF OnTrace, RangeOf
  <2> QED BY <1>1, <2>1 DEF CoveredPrograms, P
<1> DEFINE e == Append(Scope(q), CfgOf(P, Scope(q)).vertices[q.label].instance)
           all == P.summaries[P.scopes[e]]
           back == <<q.cycle, Target(CfgOf(P, Scope(q)), q.label, "CALL_TO_RETURN"), q.stack>>
<1>4. (CfgOf(P, Scope(q)).vertices[q.label].op = "call" /\ P.scopes[e] \in DOMAIN P.summaries) =>
        \A i \in DOMAIN all : TrueIn(P, e, q) \in Effect(CfgOf(P, e), all[i]).applies =>
          Trace[prog][w][back].taken = q.taken \cup BranchesAlong(CfgOf(P, e), all[i].literals)
  <2>1. CASE DOMAIN P.summaries # {}
    BY <1>3, <2>1, Zenon DEF SummaryIsTaken, P
  <2>2. CASE DOMAIN P.summaries = {}
    BY <2>2
  <2> QED BY <2>1, <2>2
<1>5. /\ Scope(q) = Scope(caller) /\ q.label = caller.label /\ q.stack = caller.stack /\ q.cycle = caller.cycle
      /\ CfgOf(P, Scope(q)).vertices[q.label] = Vertex(caller)
  BY <1>2, AtSameVertex
<1>6. /\ e = Scope(c) /\ Vertex(caller).op = "call" /\ caller.cycle = c.cycle
      /\ back = <<caller.cycle, ReturnLabel(c), caller.stack>>
  <2>1. /\ Vertex(caller).op = "call" /\ caller.cycle = c.cycle
        /\ Scope(c) = Append(Scope(caller), Vertex(caller).instance)
        /\ ReturnLabel(c) = Target(CfgOf(P, Scope(caller)), caller.label, "CALL_TO_RETURN")
    <3>1. Vertex(caller).op = "call" /\ caller.cycle = c.cycle
      BY <1>1 DEF CallsInto
    <3> QED BY <1>1, <3>1, FrameOfCall
  <2> QED BY <1>5, <2>1
<1>7. all = SummariesAt(P, c) /\ P.scopes[e] \in DOMAIN P.summaries
  BY <1>6 DEF SummariesAt
<1>8. TrueIn(P, Scope(c), q) = TrueVariables(P, c, w)
  BY <1>1, <1>2, TrueInCallee
<1>9. back = Position(d)
  BY <1>6 DEF Position
<1> HIDE DEF e, all, back
<1>10. TrueIn(P, e, q) \in Effect(CfgOf(P, e), all[k]).applies
  BY <1>6, <1>7, <1>8 DEF Applies
<1>11. Trace[prog][w][back].taken = q.taken \cup BranchesAlong(CfgOf(P, e), all[k].literals)
  BY <1>4, <1>5, <1>6, <1>7, <1>10
<1> QED BY <1>2, <1>6, <1>7, <1>9, <1>11 DEF TakenAt

(* No branch leads out of a call.                                          *)
LEMMA CallTakesNoBranch ==
  ASSUME RunsInv, NEW w \in Worlds(P), NEW c, Follows(c, w), Vertex(c).op = "call", NEW l
  PROVE  BranchesTaken(CfgOf(P, Scope(c)), c.label, l) = {}
<1>1. PICK k : Matches(c, w, k) /\ RunOK(P, k)
  BY FollowedConfiguration
<1>2. Scope(k) = Scope(c)
  BY <1>1, AtSameVertex
<1>3. WellFormed(P) /\ Scope(c) \in DOMAIN P.scopes
  <2>1. PICK p : p = Code[prog]
    OBVIOUS
  <2>2. p = P /\ prog \in Programs
    BY <2>1 DEF P, RunsInv, Inv, ControlInv, EngineOK
  <2>3. RunOK(p, k)
    BY <1>1, <2>2
  <2>4. WellFormed(p) /\ Scope(k) \in DOMAIN p.scopes
    BY <2>1, <2>2, <2>3, RunVertex
  <2> QED BY <1>2, <2>2, <2>4
<1> PICK g : g = CfgOf(P, Scope(c))
  OBVIOUS
<1>4. \A e \in g.edges : e.type \in {"TRUE_BRANCH", "FALSE_BRANCH"} => g.vertices[e.src].op = "if"
  BY <1>3 DEF WellFormed
<1>5. g.vertices[c.label].op = "call"
  BY DEF Vertex
<1> QED BY <1>4, <1>5 DEF BranchesTaken, OutgoingEdges

(* A context that returns from a summarized call is ready to be dispatched.*)
LEMMA ReturnIsPending ==
  ASSUME RunsInv, NEW w \in Worlds(P), NEW caller, Follows(caller, w),
         Vertex(caller).op = "call", NEW d, d.stack = caller.stack, d.cycle = cycle,
         NEW l, l = caller.label, NEW done, TakenAt(d, w) \subseteq done
  PROVE  LET new == BranchesTaken(CfgOf(P, Scope(d)), l, d.label)
         IN  /\ TakenAt(d, w) \subseteq done \cup new
             /\ new \subseteq TakenAt(d, w)
             /\ d.cycle # cycle => new \subseteq done
<1>1. Scope(d) = Scope(caller)
  BY DEF Scope
<1>2. BranchesTaken(CfgOf(P, Scope(d)), l, d.label) = {}
  BY <1>1, CallTakesNoBranch
<1> QED BY <1>2

(* A summary covers the branches of its path, with a test case of the      *)
(* context that it applies to.                                             *)
LEMMA ApplyNextSummaryCovered ==
  ASSUME CoverageInv, RunsInv', ApplyNextSummary
  PROVE  CoverageInv'
<1> DEFINE Summary(c, k) == SummariesAt(P, c)[k]
           Applied(c, k) == ApplySummary(P, version, c, Summary(c, k))
           LeaveCall(c, d) == [d EXCEPT !.label = ReturnLabel(c),
                                        !.stack = SubSeq(@, 1, Len(@) - 1)]
           Path(c, k) == <<covered>> \o Summary(c, k).literals
           Along(c, k) == UNION {BranchesTaken(CfgOf(P, Scope(c)), Path(c, k)[i], Path(c, k)[i + 1]) :
                                   i \in 1 .. Len(Summary(c, k).literals)}
<1>1. PICK k \in todo :
        /\ pending' = Append(pending, LeaveCall(held[1], Applied(held[1], k)))
        /\ branches' = branches \cup Along(held[1], k)
        /\ IF Along(held[1], k) \subseteq branches
           THEN UNCHANGED testSuite
           ELSE DeriveTestCase(Applied(held[1], k))
        /\ phase' = IF todo = {k} THEN "dispatch" ELSE phase
        /\ held' = IF todo = {k} THEN <<>> ELSE held
  BY Zenon DEF ApplyNextSummary
<1>2. PICK c : c = held[1]
  OBVIOUS
<1>3. PICK s : s = Summary(c, k)
  OBVIOUS
<1>4. PICK a : a = Applied(c, k)
  OBVIOUS
<1>5. PICK d : d = LeaveCall(c, a)
  OBVIOUS
<1>6. PICK path : path = Path(c, k)
  OBVIOUS
<1>7. PICK new : new = Along(c, k)
  OBVIOUS
<1>8. /\ pending' = Append(pending, d) /\ branches' = branches \cup new
      /\ IF new \subseteq branches THEN UNCHANGED testSuite ELSE DeriveTestCase(a)
  <2> HIDE DEF Applied, LeaveCall, Along
  <2> QED BY <1>1, <1>2, <1>4, <1>5, <1>7
<1>9. /\ s = SummariesAt(P, c)[k] /\ a = ApplySummary(P, version, c, s)
      /\ d = [a EXCEPT !.label = ReturnLabel(c), !.stack = SubSeq(@, 1, Len(@) - 1)]
      /\ path = <<covered>> \o s.literals
      /\ new = UNION {BranchesTaken(CfgOf(P, Scope(c)), path[i], path[i + 1]) : i \in 1 .. Len(s.literals)}
  BY <1>3, <1>4, <1>5, <1>6, <1>7, Zenon
<1> HIDE DEF Summary, Applied, LeaveCall, Path, Along
<1>10. PICK caller : caller = Caller(c)
  OBVIOUS
<1>11. /\ prog' = prog /\ P' = P /\ phase = "summarize" /\ explorer' = explorer /\ cycle' = cycle
       /\ merger' = merger /\ succeeding' = succeeding /\ source' = source
  BY DEF ApplyNextSummary, P
<1>12. /\ RunsInv /\ IsSeq(pending) /\ k \in DOMAIN SummariesAt(P, c)
       /\ prog \in CoveredPrograms /\ SuiteCoversBranches /\ cycle < CycleBound
       /\ WellFormedSummaries(P) /\ version \in [FlattenedInterface(P) -> Nat]
  BY <1>1, <1>2, <1>11, CodeAssumption
     DEF CoverageInv, RunsInv, Inv, ControlInv, EngineOK, PhasesOK, P
<1>13. /\ DOMAIN held = {1} /\ ContextOK(P, c) /\ CallsInto(caller, c)
       /\ Scope(c) \in DOMAIN P.scopes /\ caller.stack = SubSeq(c.stack, 1, Len(c.stack) - 1)
       /\ \A w \in PathWorlds(P, c) : w \in Worlds(P) /\ Follows(caller, w)
  BY <1>2, <1>10, <1>11, <1>12, WaitingContext
<1>14. c.cycle = cycle
  BY <1>2, <1>13 DEF CoverageInv, RunsInv, Inv, ControlInv, CyclesOK, RangeOf
<1>15. ContextOK(P, a) /\ a.cycle = c.cycle /\ a.stack = c.stack
  BY <1>9, <1>12, <1>13, ApplySummaryOK
<1>16. /\ d.val = a.val /\ d.pc = a.pc /\ d.ver = a.ver /\ d.cycle = c.cycle
       /\ d.label = ReturnLabel(c) /\ d.stack = SubSeq(c.stack, 1, Len(c.stack) - 1)
  BY <1>9, <1>15 DEF ContextOK
<1>17. /\ PathWorlds(P, d) = PathWorlds(P, a) /\ d.stack = caller.stack
  <2>1. d.val = a.val /\ d.pc = a.pc /\ d.ver = a.ver /\ d.cycle = a.cycle
    BY <1>15, <1>16
  <2>2. PathWorlds(P, d) = PathWorlds(P, a)
    BY <2>1, SameMeaning, Zenon
  <2> QED BY <1>13, <1>16, <2>2
<1>18. /\ \A w : w \in PathWorlds(P, d) <=> w \in PathWorlds(P, c) /\ Applies(c, w, k)
       /\ \A w \in Worlds(P) : HasSummarized(caller, c, w, k, d)
  <2>1. RunsInv /\ phase = "summarize" /\ k \in DOMAIN SummariesAt(P, c)
    BY <1>11, <1>12
  <2>2. s = SummariesAt(P, c)[k] /\ a = ApplySummary(P, version, c, s)
    BY <1>9
  <2> QED BY <1>2, <1>10, <1>16, <2>1, <2>2, AppliedMeans
<1>19. new = BranchesAlong(CfgOf(P, Scope(c)), s.literals)
  <2>1. P.scopes[Scope(c)] \in DOMAIN P.summaries
    BY <1>12 DEF SummariesAt
  <2>2. s \in RangeOf(P.summaries[P.scopes[Scope(c)]])
    BY <1>9, <1>12, <2>1 DEF SummariesAt, RangeOf
  <2>3. StartsAtEntry(CfgOf(P, Scope(c)), s)
    BY <1>12, <1>13, <2>1, <2>2 DEF CoveredPrograms, P
  <2>4. PICK g : g = CfgOf(P, Scope(c))
    OBVIOUS
  <2>5. TakenAlong(g, path, Len(s.literals)) = BranchesAlong(g, s.literals)
    <3>1. StartsAtEntry(g, s) /\ path = <<covered>> \o s.literals
      BY <1>9, <2>3, <2>4
    <3> QED BY <3>1, PathTaken
  <2> QED BY <1>9, <2>4, <2>5 DEF TakenAlong
<1>20. source = caller.label
  <2>1. source = c.label
    BY <1>2, <1>11 DEF CoverageInv, CallIsRecorded
  <2>2. caller.label = c.label
    BY <1>10, <1>13 DEF Caller, ContextOK
  <2> QED BY <2>1, <2>2
<1>21. \A w \in PathWorlds(P, c) : TakenAt(caller, w) \subseteq branches
  BY <1>2, <1>10, <1>11 DEF CoverageInv, CallIsRecorded
<1>22. ASSUME NEW w \in PathWorlds(P, d)
       PROVE  /\ w \in Worlds(P) /\ Follows(caller, w) /\ Follows(d, w)
              /\ new \subseteq TakenAt(d, w) /\ TakenAt(d, w) \subseteq branches'
  <2>1. w \in PathWorlds(P, c) /\ Applies(c, w, k)
    BY <1>18
  <2>2. w \in Worlds(P) /\ Follows(caller, w)
    BY <1>13, <2>1
  <2>3. TakenAt(d, w) = TakenAt(caller, w) \cup new
    <3>1. /\ RunsInv /\ prog \in CoveredPrograms /\ phase = "summarize"
          /\ k \in DOMAIN SummariesAt(P, c) /\ s = SummariesAt(P, c)[k]
      BY <1>9, <1>11, <1>12
    <3>2. d.cycle = c.cycle /\ d.label = ReturnLabel(c) /\ d.stack = caller.stack
      BY <1>16, <1>17
    <3>3. TakenAt(d, w) = TakenAt(caller, w) \cup BranchesAlong(CfgOf(P, Scope(c)), s.literals)
      BY <1>2, <1>10, <2>1, <3>1, <3>2, SummaryTaken
    <3> QED BY <1>19, <3>3
  <2>4. Follows(d, w)
    <3>1. P.scopes[Scope(c)] \in DOMAIN P.summaries
      BY <1>12 DEF SummariesAt
    <3>2. PICK i \in DOMAIN SummariesAt(P, c) :
            /\ \A j \in DOMAIN SummariesAt(P, c) : Applies(c, w, j) <=> j = i
            /\ \A e : HasSummarized(caller, c, w, i, e) => Follows(e, w)
      BY <1>12, <1>13, <2>2, <3>1, SummaryOfCall DEF RunsInv
    <3>3. i = k
      BY <1>12, <2>1, <3>2
    <3> QED BY <1>18, <2>2, <3>2, <3>3
  <2> QED BY <1>8, <1>21, <2>1, <2>2, <2>3, <2>4
<1>23. SuiteCoversBranches'
  <2>1. /\ new \subseteq branches => testSuite' = testSuite
        /\ ~(new \subseteq branches) =>
              \E w \in PathWorlds(P, a) : testSuite' = testSuite \cup {TestCase(a, w)}
    BY <1>8 DEF DeriveTestCase
  <2>2. \A w \in PathWorlds(P, a) :
          /\ w \in Worlds(P) /\ Follows(d, w) /\ new \subseteq TakenAt(d, w)
          /\ ~(new \subseteq branches) => a.cycle = cycle /\ d.cycle = cycle
    BY <1>14, <1>15, <1>16, <1>17, <1>22
  <2> QED BY <1>8, <1>11, <1>12, <2>1, <2>2, SuiteGrows
<1>24. BranchesPending(d)'
  <2>1. ASSUME NEW w \in PathWorlds(P, d)
        PROVE  LET taken == BranchesTaken(CfgOf(P, Scope(d)), source, d.label)
               IN  /\ TakenAt(d, w) \subseteq branches' \cup taken
                   /\ taken \subseteq TakenAt(d, w)
                   /\ d.cycle # cycle => taken \subseteq branches'
    <3>1. d.cycle = cycle /\ Vertex(caller).op = "call"
      BY <1>13, <1>14, <1>16 DEF CallsInto
    <3>2. PICK done : done = branches'
      OBVIOUS
    <3> QED BY <1>12, <1>17, <1>20, <1>22, <3>1, <3>2, ReturnIsPending
  <2>2. PICK taken : taken = BranchesTaken(CfgOf(P, Scope(d)), source, d.label)
    OBVIOUS
  <2>3. \A w \in PathWorlds(P, d) : /\ TakenAt(d, w)' \subseteq branches' \cup taken
                                    /\ taken \subseteq TakenAt(d, w)'
                                    /\ d.cycle # cycle' => taken \subseteq branches'
    <3>1. \A w : TakenAt(d, w)' = TakenAt(d, w)
      BY <1>11 DEF TakenAt
    <3> QED BY <1>11, <2>1, <2>2, <3>1
  <2>4. taken = BranchesTaken(CfgOf(P', Scope(d)), source', d.label) /\ PathWorlds(P', d) = PathWorlds(P, d)
    BY <1>11, <2>2
  <2> QED BY <2>3, <2>4 DEF BranchesPending
<1>25. BranchesAreRecorded'
  <2>1. \A e : BranchesCovered(e) => BranchesCovered(e)'
    BY <1>8, <1>11, CoveredKept
  <2>2. \A e : BranchesPending(e) => BranchesPending(e)'
    BY <1>8, <1>11, PendingKept
  <2>3. InMerger' = InMerger
    BY <1>11 DEF InMerger
  <2>4. RangeOf(pending') \subseteq RangeOf(pending) \cup {d}
    <3>1. PICK S : S = RangeOf(pending) \cup {d}
      OBVIOUS
    <3>2. pending \in Seq(S)
      BY <1>12, <3>1 DEF IsSeq
    <3>3. pending' \in Seq(S)
      BY <1>8, <3>1, <3>2
    <3> QED BY <3>1, <3>3 DEF RangeOf
  <2>5. phase' # "summarize" => RangeOf(held') = {}
    BY <1>1, <1>11 DEF RangeOf
  <2>6. \A e \in explorer \cup InMerger \cup succeeding : BranchesCovered(e)
    BY <1>11 DEF CoverageInv, BranchesAreRecorded
  <2>7. \A e \in RangeOf(pending) : BranchesPending(e)
    BY <1>11 DEF CoverageInv, BranchesAreRecorded
  <2>8. \A e \in explorer' \cup InMerger' \cup succeeding' : BranchesCovered(e)'
    BY <1>11, <2>1, <2>3, <2>6
  <2>9. \A e \in RangeOf(pending') : BranchesPending(e)'
    BY <1>24, <2>2, <2>4, <2>7
  <2> QED BY <2>5, <2>8, <2>9 DEF BranchesAreRecorded
<1>26. CallIsRecorded'
  <2>1. CASE todo = {k}
    BY <1>1, <2>1 DEF CallIsRecorded
  <2>2. CASE todo # {k}
    <3>1. c = held'[1] /\ caller = Caller(held'[1]) /\ source' = c.label
      BY <1>1, <1>2, <1>10, <1>11, <2>2 DEF CoverageInv, CallIsRecorded
    <3>2. \A w \in PathWorlds(P', c) : TakenAt(caller, w)' \subseteq branches'
      <4>1. \A w : TakenAt(caller, w)' = TakenAt(caller, w)
        BY <1>11 DEF TakenAt
      <4> QED BY <1>8, <1>11, <1>21, <4>1
    <3> QED BY <3>1, <3>2 DEF CallIsRecorded
  <2> QED BY <2>1, <2>2
<1>27. phase' # "done"
  BY <1>1, <1>11
<1> QED BY <1>11, <1>12, <1>23, <1>25, <1>26, <1>27 DEF CoverageInv, CoverageIsComplete

-----------------------------------------------------------------------------
(* What the engine has covered.                                            *)

(* Every step of a faithful engine keeps its coverage that of the runs.    *)
LEMMA NextCovered == CoverageInv /\ Faithful' /\ [Next]_vars => CoverageInv'
<1> SUFFICES ASSUME CoverageInv, Faithful', [Next]_vars
             PROVE  CoverageInv'
  OBVIOUS
<1>1. RunsInv
  BY DEF CoverageInv
<1>2. RunsInv'
  BY <1>1, NextRuns
<1>3. Inv'
  BY <1>2 DEF RunsInv
<1>4. CASE \/ TimeOut \/ UNCHANGED vars
  <2>1. UNCHANGED <<prog, phase, cycle, explorer, merger, succeeding, held, pending, source,
                    branches, testSuite>>
    BY <1>4 DEF TimeOut, vars, contextVars, coverageVars
  <2>2. phase # "done" \/ timedOut' = timedOut
    BY <1>4 DEF TimeOut, vars
  <2> QED BY <1>2, <2>1, <2>2, StutterCovered
<1>5. CASE RunLoop
  BY <1>2, <1>5, RunLoopCovered
<1>6. CASE EndOfStep
  BY <1>2, <1>6, EndOfStepCovered
<1>7. CASE LocalTermination
  BY <1>2, <1>7, LocalTerminationCovered
<1>8. CASE BeginMerge
  BY <1>2, <1>8, BeginMergeCovered
<1>9. CASE MergePair
  BY <1>2, <1>9, MergePairCovered
<1>10. CASE EndMerge
  BY <1>2, <1>10, EndMergeCovered
<1>11. CASE \/ HandlePassThroughVertex \/ VisitAssignmentInstruction \/ VisitIfInstruction
            \/ VisitCallInstruction \/ HandleProgramExitVertex \/ HandleFunctionBlockExitVertex
  <2>1. ExecutesStep \/ WaitsAtCall
    BY <1>1, <1>3, <1>11, HandlePassThroughVertexRuns, VisitAssignmentInstructionRuns,
       VisitIfInstructionRuns, VisitCallInstructionRuns, HandleProgramExitVertexRuns,
       HandleFunctionBlockExitVertexRuns
  <2> QED BY <1>2, <2>1, ExecutesStepCovered, WaitsAtCallCovered
<1>12. CASE ApplyNextSummary
  BY <1>2, <1>12, ApplyNextSummaryCovered
<1>13. CASE Dispatch
  BY <1>2, <1>13, DispatchCovered
<1> QED BY <1>4, <1>5, <1>6, <1>7, <1>8, <1>9, <1>10, <1>11, <1>12, <1>13
        DEF Next, EngineStep, Done

(* What the engine reports as covered is what its contexts, and the test   *)
(* cases that it has derived, take.                                        *)
THEOREM BranchesAreCovered ==
  Spec /\ prog \in CoveredPrograms /\ []Faithful => []CoverageInv
<1>1. Init /\ Faithful /\ prog \in CoveredPrograms => CoverageInv
  BY InitRuns, InitCovered
<1> QED BY <1>1, NextCovered, PTL DEF Spec

(* The branch-covering test cases of Engine::run cover the branches that   *)
(* it reports.                                                             *)
THEOREM SuiteCovers ==
  Spec /\ prog \in CoveredPrograms /\ []Faithful => []SuiteCoversBranches
<1>1. CoverageInv => SuiteCoversBranches
  BY DEF CoverageInv
<1> QED BY <1>1, BranchesAreCovered, PTL

(* A run of the engine that no time-out cut short has covered every branch *)
(* that some run takes within the cycle bound.                             *)
THEOREM CoverageCompletes ==
  Spec /\ prog \in CoveredPrograms /\ []Faithful => []CoverageIsComplete
<1>1. CoverageInv => CoverageIsComplete
  BY DEF CoverageInv
<1> QED BY <1>1, BranchesAreCovered, PTL

-----------------------------------------------------------------------------
(* ScanCycle speaks of the same program and of the same runs.              *)

(* The program.                                                            *)
LEMMA SameProgram ==
  /\ \A p : Abstract!MainScope(p) = MainScope(p)
  /\ \A p, s : Abstract!CfgOf(p, s) = CfgOf(p, s)
  /\ \A p : Abstract!MainCfg(p) = MainCfg(p)
  /\ \A g, l : Abstract!OutgoingEdges(g, l) = OutgoingEdges(g, l)
  /\ \A g, l, t : Abstract!Target(g, l, t) = Target(g, l, t)
  /\ \A g, l : Abstract!SucceedingLabel(g, l) = SucceedingLabel(g, l)
  /\ \A p : Abstract!FlattenedInterface(p) = FlattenedInterface(p)
  /\ \A p, x : Abstract!InitialValue(p, x) = InitialValue(p, x)
  /\ \A p : Abstract!Statements(p) = Statements(p)
<1>1. /\ \A p : Abstract!MainScope(p) = MainScope(p)
      /\ \A p, s : Abstract!CfgOf(p, s) = CfgOf(p, s)
      /\ \A g, l : Abstract!OutgoingEdges(g, l) = OutgoingEdges(g, l)
  BY DEF Abstract!MainScope, MainScope, Abstract!CfgOf, CfgOf, Abstract!OutgoingEdges, OutgoingEdges
<1>2. \A p : Abstract!MainCfg(p) = MainCfg(p)
  BY <1>1 DEF Abstract!MainCfg, MainCfg
<1>3. /\ \A g, l, t : Abstract!Target(g, l, t) = Target(g, l, t)
      /\ \A g, l : Abstract!SucceedingLabel(g, l) = SucceedingLabel(g, l)
  BY Zenon DEF Abstract!Target, Target, Abstract!SucceedingLabel, SucceedingLabel,
               Abstract!OutgoingEdges, OutgoingEdges
<1>4. \A p : Abstract!FlattenedInterface(p) = FlattenedInterface(p)
  BY Zenon DEF Abstract!FlattenedInterface, FlattenedInterface, Abstract!CfgOf, CfgOf
<1>5. \A p, x : Abstract!InitialValue(p, x) = InitialValue(p, x)
  BY Zenon DEF Abstract!InitialValue, InitialValue, Abstract!CfgOf, CfgOf
<1>6. \A p : Abstract!Statements(p) = Statements(p)
  BY Zenon DEF Abstract!Statements, Statements
<1> QED BY <1>1, <1>2, <1>3, <1>4, <1>5, <1>6

(* Its worlds and its branches.                                            *)
LEMMA SameWorlds ==
  /\ \A p : Abstract!WholeProgramInputs(p) = WholeProgramInputs(p)
  /\ \A p : Abstract!Worlds(p) = Worlds(p)
  /\ \A p : Abstract!Branches(p) = Branches(p)
<1>1. \A p : Abstract!WholeProgramInputs(p) = WholeProgramInputs(p)
  BY Zenon, SameProgram DEF Abstract!WholeProgramInputs, WholeProgramInputs
<1>2. \A p : Abstract!HavocPoints(p) = HavocPoints(p)
  BY Zenon DEF Abstract!HavocPoints, HavocPoints, Abstract!CfgOf, CfgOf
<1>3. \A p : Abstract!Worlds(p) = Worlds(p)
  BY Zenon, <1>1, <1>2 DEF Abstract!Worlds, Worlds
<1>4. \A p : Abstract!Branches(p) = Branches(p)
  BY Zenon DEF Abstract!Branches, Branches, Abstract!Statements, Statements
<1> QED BY <1>1, <1>3, <1>4

(* Its runs.                                                               *)
LEMMA SameRuns ==
  /\ \A k : Abstract!Scope(k) = Scope(k) /\ Abstract!ReturnLabel(k) = ReturnLabel(k)
  /\ \A k : Abstract!Position(k) = Position(k)
  /\ \A p, w : Abstract!InitialConfiguration(p, w) = InitialConfiguration(p, w)
  /\ \A p, w, k : Abstract!ConcreteNextCycle(p, w, k) = ConcreteNextCycle(p, w, k)
  /\ \A p, w, k : Abstract!ConcreteStep(p, w, k) = ConcreteStep(p, w, k)
<1>1. \A k : Abstract!Scope(k) = Scope(k) /\ Abstract!ReturnLabel(k) = ReturnLabel(k)
  BY DEF Abstract!Scope, Scope, Abstract!ReturnLabel, ReturnLabel
<1>2. \A k : Abstract!Position(k) = Position(k)
  BY DEF Abstract!Position, Position
<1>3. \A p, w : Abstract!InitialConfiguration(p, w) = InitialConfiguration(p, w)
  BY Zenon, SameProgram, SameWorlds DEF Abstract!InitialConfiguration, InitialConfiguration
<1>4. \A p, w, k : Abstract!ConcreteNextCycle(p, w, k) = ConcreteNextCycle(p, w, k)
  BY Zenon, <1>1, SameWorlds DEF Abstract!ConcreteNextCycle, ConcreteNextCycle
<1>5. \A s, ref : Abstract!Flatten(s, ref) = Flatten(s, ref)
  BY DEF Abstract!Flatten, Flatten
<1>6. \A k, e : Abstract!Evaluate(k, e) = Evaluate(k, e)
  BY Zenon, <1>1, <1>5 DEF Abstract!Evaluate, Evaluate
<1>7. ASSUME NEW p, NEW w, NEW k
      PROVE  Abstract!ConcreteStep(p, w, k) = ConcreteStep(p, w, k)
  <2> DEFINE G == Abstract!CfgOf(p, Abstract!Scope(k))
             V == G.vertices[k.label]
             Holds == Abstract!Evaluate(k, V.cond)
             g == CfgOf(p, Scope(k))
             v == g.vertices[k.label]
             holds == Evaluate(k, v.cond)
  <2>1. Abstract!ConcreteStep(p, w, k) =
          CASE V.type = "ENTRY" -> [k EXCEPT !.label = Abstract!SucceedingLabel(G, k.label)]
            [] V.type = "EXIT" /\ G.type = "PROGRAM" -> Abstract!ConcreteNextCycle(p, w, k)
            [] V.type = "EXIT" /\ G.type = "FUNCTION_BLOCK" ->
                 [k EXCEPT !.label = Abstract!ReturnLabel(k),
                           !.stack = SubSeq(@, 1, Len(@) - 1)]
            [] V.type = "REGULAR" /\ V.op = "none" ->
                 [k EXCEPT !.label = Abstract!SucceedingLabel(G, k.label)]
            [] V.type = "REGULAR" /\ V.op = "assign" ->
                 [k EXCEPT !.env[Abstract!Flatten(Abstract!Scope(k), V.var)] =
                              Abstract!Evaluate(k, V.rhs),
                           !.label = Abstract!Target(G, k.label, "INTRAPROCEDURAL")]
            [] V.type = "REGULAR" /\ V.op = "havoc" ->
                 [k EXCEPT !.env[Abstract!Flatten(Abstract!Scope(k), V.var)] =
                              <<k.cycle, <<Abstract!Scope(k), "havoc", k.label>>>> \in w,
                           !.label = Abstract!Target(G, k.label, "INTRAPROCEDURAL")]
            [] V.type = "REGULAR" /\ V.op = "if" ->
                 [k EXCEPT !.label = Abstract!Target(G, k.label, IF Holds THEN "TRUE_BRANCH"
                                                                          ELSE "FALSE_BRANCH"),
                           !.taken = @ \cup {<<k.label, Holds>>}]
            [] V.type = "REGULAR" /\ V.op = "call" ->
                 [k EXCEPT !.label = Abstract!Target(G, k.label, "CALL"),
                           !.stack = Append(@,
                             [scope |-> Append(Abstract!Scope(k), V.instance),
                              ret |-> Abstract!Target(G, k.label, "CALL_TO_RETURN")])]
    BY Zenon DEF Abstract!ConcreteStep
  <2>2. ConcreteStep(p, w, k) =
          CASE v.type = "ENTRY" -> [k EXCEPT !.label = SucceedingLabel(g, k.label)]
            [] v.type = "EXIT" /\ g.type = "PROGRAM" -> ConcreteNextCycle(p, w, k)
            [] v.type = "EXIT" /\ g.type = "FUNCTION_BLOCK" ->
                 [k EXCEPT !.label = ReturnLabel(k), !.stack = SubSeq(@, 1, Len(@) - 1)]
            [] v.type = "REGULAR" /\ v.op = "none" ->
                 [k EXCEPT !.label = SucceedingLabel(g, k.label)]
            [] v.type = "REGULAR" /\ v.op = "assign" ->
                 [k EXCEPT !.env[Flatten(Scope(k), v.var)] = Evaluate(k, v.rhs),
                           !.label = Target(g, k.label, "INTRAPROCEDURAL")]
            [] v.type = "REGULAR" /\ v.op = "havoc" ->
                 [k EXCEPT !.env[Flatten(Scope(k), v.var)] =
                              <<k.cycle, <<Scope(k), "havoc", k.label>>>> \in w,
                           !.label = Target(g, k.label, "INTRAPROCEDURAL")]
            [] v.type = "REGULAR" /\ v.op = "if" ->
                 [k EXCEPT !.label = Target(g, k.label, IF holds THEN "TRUE_BRANCH"
                                                                 ELSE "FALSE_BRANCH"),
                           !.taken = @ \cup {<<k.label, holds>>}]
            [] v.type = "REGULAR" /\ v.op = "call" ->
                 [k EXCEPT !.label = Target(g, k.label, "CALL"),
                           !.stack = Append(@, [scope |-> Append(Scope(k), v.instance),
                                                ret |-> Target(g, k.label, "CALL_TO_RETURN")])]
    BY Zenon DEF ConcreteStep
  <2>3. G = g /\ V = v /\ Abstract!Scope(k) = Scope(k)
    BY <1>1, SameProgram
  <2>4. Holds = holds
    BY <1>6, <2>3
  <2> HIDE DEF G, V, Holds, g, v, holds
  <2> QED BY <1>1, <1>4, <1>5, <1>6, <2>1, <2>2, <2>3, <2>4, SameProgram
<1> QED BY <1>1, <1>2, <1>3, <1>4, <1>7

-----------------------------------------------------------------------------
(* RunsHaveReturned is kept.                                               *)

(* The worlds in which a summary applies, one by one.                      *)
LEMMA AppliedForms ==
  \A c, k, w : w \in AppliedWorlds(c, k) <=> w \in PathWorlds(P, c) /\ Applies(c, w, k)
BY DEF AppliedWorlds, Applies, TrueVariables

(* The same after a step.                                                  *)
LEMMA NextAppliedForms ==
  ASSUME prog' = prog
  PROVE  \A c, k, w : w \in AppliedWorlds(c, k)' <=> w \in PathWorlds(P, c) /\ Applies(c, w, k)
<1>1. P' = P
  BY DEF P
<1>2. \A c, k : AppliedWorlds(c, k)' = AppliedWorlds(c, k)
  BY <1>1 DEF AppliedWorlds
<1> QED BY <1>2, AppliedForms

(* A context that comes to a call: all its runs have a summary.            *)
LEMMA WaitsAtCallReturns ==
  ASSUME RunsInv, WaitsAtCall
  PROVE  RunsHaveReturned'
<1>1. PICK c, callee :
        /\ c \in explorer /\ Pop(c) /\ CallsInto(c, callee)
        /\ PathWorlds(P, callee) = PathWorlds(P, c)
        /\ held' = <<callee>> /\ pending' = pending
        /\ P.scopes[Scope(callee)] \in DOMAIN P.summaries
        /\ todo' = FindApplicableSummaries(P, callee)
  BY DEF WaitsAtCall
<1>2. prog' = prog /\ P' = P
  BY <1>1 DEF Pop, P
<1>3. pending' = <<>>
  BY <1>1, PopOK DEF RunsInv, Inv
<1>4. held'[1] = callee
  BY <1>1
<1>5. ASSUME NEW w \in PathWorlds(P, callee)
      PROVE  \E k \in todo' : w \in AppliedWorlds(callee, k)'
  <2>1. w \in Worlds(P) /\ Follows(c, w)
    BY <1>1, <1>5, PoppedFollows
  <2>2. PICK i \in DOMAIN SummariesAt(P, callee) :
          \A j \in DOMAIN SummariesAt(P, callee) : Applies(callee, w, j) <=> j = i
    BY <1>1, <2>1, SummaryOfCall DEF RunsInv
  <2>3. ContextOK(P, c)
    BY <1>1, PoppedVertex
  <2>4. i \in FindApplicableSummaries(P, callee)
    BY <1>1, <1>5, <2>2, <2>3, SummariesFound
  <2>5. w \in AppliedWorlds(callee, i)'
    BY <1>2, <1>5, <2>2, NextAppliedForms
  <2> QED BY <1>1, <2>4, <2>5
<1>6. RangeOf(pending') = {}
  BY <1>3 DEF RangeOf
<1> QED BY <1>2, <1>4, <1>5, <1>6 DEF RunsHaveReturned

(* The labels from that of the block executed last to the end of the k-th  *)
(* summary, and the branches along them.                                   *)
LabelsAlong(c, k) == <<covered>> \o SummariesAt(P, c)[k].literals

(* The branches along them.                                                *)
NewAlong(c, k) ==
  TakenAlong(CfgOf(P, Scope(c)), LabelsAlong(c, k), Len(SummariesAt(P, c)[k].literals))

(* What one pass of the loop over the summaries does.                      *)
AppliesSummary(c, k, a, d) ==
  /\ c = held[1] /\ k \in DOMAIN SummariesAt(P, c)
  /\ a = ApplySummary(P, version, c, SummariesAt(P, c)[k])
  /\ d.stack = Caller(c).stack /\ d.label = ReturnLabel(c) /\ d.cycle = c.cycle
  /\ PathWorlds(P, d) = PathWorlds(P, a)
  /\ \A w : w \in PathWorlds(P, d) <=> w \in PathWorlds(P, c) /\ Applies(c, w, k)
  /\ pending' = Append(pending, d)
  /\ todo' = todo \ {k}
  /\ phase' = IF todo = {k} THEN "dispatch" ELSE phase
  /\ held' = IF todo = {k} THEN <<>> ELSE held
  /\ \E new : /\ new = NewAlong(c, k) /\ branches' = branches \cup new
              /\ IF new \subseteq branches THEN UNCHANGED testSuite ELSE DeriveTestCase(a)

(* ApplyNextSummary is one such pass.                                      *)
LEMMA SummaryIsApplied ==
  ASSUME RunsInv, ApplyNextSummary
  PROVE  /\ phase = "summarize" /\ prog' = prog
         /\ UNCHANGED <<explorer, merger, succeeding, timedOut>>
         /\ \E k \in todo : \E c, a, d : AppliesSummary(c, k, a, d)
<1> DEFINE Summary(c, k) == SummariesAt(P, c)[k]
           Applied(c, k) == ApplySummary(P, version, c, Summary(c, k))
           LeaveCall(c, d) == [d EXCEPT !.label = ReturnLabel(c),
                                        !.stack = SubSeq(@, 1, Len(@) - 1)]
           Path(c, k) == <<covered>> \o Summary(c, k).literals
           Along(c, k) == UNION {BranchesTaken(CfgOf(P, Scope(c)), Path(c, k)[i], Path(c, k)[i + 1]) :
                                   i \in 1 .. Len(Summary(c, k).literals)}
<1>1. PICK k \in todo :
        /\ pending' = Append(pending, LeaveCall(held[1], Applied(held[1], k)))
        /\ branches' = branches \cup Along(held[1], k)
        /\ IF Along(held[1], k) \subseteq branches
           THEN UNCHANGED testSuite
           ELSE DeriveTestCase(Applied(held[1], k))
        /\ todo' = todo \ {k}
        /\ phase' = IF todo = {k} THEN "dispatch" ELSE phase
        /\ held' = IF todo = {k} THEN <<>> ELSE held
  BY Zenon DEF ApplyNextSummary
<1>2. PICK c : c = held[1]
  OBVIOUS
<1>3. PICK a : a = Applied(c, k)
  OBVIOUS
<1>4. PICK d : d = LeaveCall(c, a)
  OBVIOUS
<1>5. PICK new : new = Along(c, k)
  OBVIOUS
<1>6. /\ pending' = Append(pending, d) /\ branches' = branches \cup new
      /\ IF new \subseteq branches THEN UNCHANGED testSuite ELSE DeriveTestCase(a)
  <2> HIDE DEF Applied, LeaveCall, Along
  <2> QED BY <1>1, <1>2, <1>3, <1>4, <1>5
<1>n. new = NewAlong(c, k)
  BY <1>5, Zenon DEF NewAlong, TakenAlong, LabelsAlong
<1>7. /\ a = ApplySummary(P, version, c, SummariesAt(P, c)[k])
      /\ d = [a EXCEPT !.label = ReturnLabel(c), !.stack = SubSeq(@, 1, Len(@) - 1)]
  BY <1>3, <1>4, Zenon
<1> HIDE DEF Summary, Applied, LeaveCall, Path, Along
<1>8. PICK caller : caller = Caller(c)
  OBVIOUS
<1>9. /\ prog' = prog /\ phase = "summarize" /\ UNCHANGED <<explorer, merger, succeeding, timedOut>>
  BY DEF ApplyNextSummary
<1>10. /\ k \in DOMAIN SummariesAt(P, c)
       /\ WellFormedSummaries(P) /\ version \in [FlattenedInterface(P) -> Nat]
  BY <1>1, <1>2, <1>9, CodeAssumption DEF RunsInv, Inv, ControlInv, EngineOK, PhasesOK, P
<1>11. ContextOK(P, c) /\ caller.stack = SubSeq(c.stack, 1, Len(c.stack) - 1)
  BY <1>2, <1>8, <1>9, WaitingContext
<1>12. ContextOK(P, a) /\ a.cycle = c.cycle /\ a.stack = c.stack
  BY <1>7, <1>10, <1>11, ApplySummaryOK
<1>13. /\ d.val = a.val /\ d.pc = a.pc /\ d.ver = a.ver /\ d.cycle = c.cycle
       /\ d.label = ReturnLabel(c) /\ d.stack = SubSeq(c.stack, 1, Len(c.stack) - 1)
  BY <1>7, <1>12 DEF ContextOK
<1>14. PathWorlds(P, d) = PathWorlds(P, a)
  BY <1>13, SameMeaning, Zenon
<1>15. \A w : w \in PathWorlds(P, d) <=> w \in PathWorlds(P, c) /\ Applies(c, w, k)
  <2>1. PICK s : s = SummariesAt(P, c)[k]
    OBVIOUS
  <2>2. RunsInv /\ phase = "summarize" /\ a = ApplySummary(P, version, c, s)
    BY <1>7, <1>9, <2>1
  <2> QED BY <1>2, <1>8, <1>10, <1>13, <2>1, <2>2, AppliedMeans
<1>16. AppliesSummary(c, k, a, d)
  <2>1. d.stack = Caller(c).stack /\ d.label = ReturnLabel(c) /\ d.cycle = c.cycle
    BY <1>8, <1>11, <1>13
  <2>2. /\ todo' = todo \ {k} /\ phase' = IF todo = {k} THEN "dispatch" ELSE phase
        /\ held' = IF todo = {k} THEN <<>> ELSE held
    BY <1>1
  <2> QED BY <1>2, <1>6, <1>7, <1>n, <1>10, <1>14, <1>15, <2>1, <2>2 DEF AppliesSummary
<1> QED BY <1>1, <1>9, <1>16

(* The runs that the summary applies to have returned; all others still    *)
(* have theirs.                                                            *)
LEMMA ApplyNextSummaryReturns ==
  ASSUME RunsInv, RunsHaveReturned, ApplyNextSummary
  PROVE  RunsHaveReturned'
<1>1. /\ phase = "summarize" /\ prog' = prog
      /\ \E k \in todo : \E c, a, d : AppliesSummary(c, k, a, d)
  BY SummaryIsApplied
<1>2. PICK k, c, a, d : k \in todo /\ AppliesSummary(c, k, a, d)
  BY <1>1
<1>3. SUFFICES ASSUME phase' = "summarize"
               PROVE  RunsHaveReturned'
  BY DEF RunsHaveReturned
<1>4. /\ held' = held /\ todo' = todo \ {k} /\ c = held[1] /\ pending' = Append(pending, d)
      /\ d.stack = Caller(c).stack
      /\ \A w : w \in PathWorlds(P, d) <=> w \in PathWorlds(P, c) /\ Applies(c, w, k)
  BY <1>2, <1>3 DEF AppliesSummary
<1>5. RangeOf(pending') = RangeOf(pending) \cup {d}
  <2>1. IsSeq(pending)
    BY DEF RunsInv, Inv, ControlInv, EngineOK
  <2>2. /\ Len(pending) \in Nat /\ DOMAIN pending = 1 .. Len(pending)
        /\ DOMAIN pending' = 1 .. Len(pending) + 1
        /\ pending'[Len(pending) + 1] = d
        /\ \A i \in 1 .. Len(pending) : pending'[i] = pending[i]
    BY <1>4, <2>1 DEF IsSeq
  <2> QED BY <2>2 DEF RangeOf
<1>6. P' = P
  BY <1>1 DEF P
<1>7. \A e \in RangeOf(pending') : e.stack = Caller(c).stack
  BY <1>1, <1>4, <1>5 DEF RunsHaveReturned
<1>8. ASSUME NEW w \in PathWorlds(P, c)
      PROVE  \/ \E j \in todo' : w \in AppliedWorlds(c, j)'
             \/ \E e \in RangeOf(pending') : w \in PathWorlds(P, e)
  <2>1. \/ \E j \in todo : w \in AppliedWorlds(c, j)
        \/ \E e \in RangeOf(pending) : w \in PathWorlds(P, e)
    BY <1>1, <1>4, <1>8 DEF RunsHaveReturned
  <2>2. CASE \E e \in RangeOf(pending) : w \in PathWorlds(P, e)
    BY <1>5, <2>2
  <2>3. ASSUME NEW j \in todo, w \in AppliedWorlds(c, j)
        PROVE  \/ \E i \in todo' : w \in AppliedWorlds(c, i)'
               \/ \E e \in RangeOf(pending') : w \in PathWorlds(P, e)
    <3>1. Applies(c, w, j)
      BY <2>3, AppliedForms
    <3>2. CASE j = k
      BY <1>4, <1>5, <1>8, <3>1, <3>2
    <3>3. CASE j # k
      BY <1>1, <1>4, <1>8, <3>1, <3>3, NextAppliedForms
    <3> QED BY <3>2, <3>3
  <2> QED BY <2>1, <2>2, <2>3
<1> QED BY <1>4, <1>6, <1>7, <1>8 DEF RunsHaveReturned

(* Every action keeps the invariant.                                       *)
LEMMA NextRefines == RefinementInv /\ Faithful' /\ [Next]_vars => RefinementInv'
<1> SUFFICES ASSUME RefinementInv, Faithful', [Next]_vars
             PROVE  RefinementInv'
  OBVIOUS
<1>1. CoverageInv /\ CoverageInv' /\ RunsInv /\ RunsInv' /\ RunsHaveReturned
  BY NextCovered DEF RefinementInv, CoverageInv
<1>2. SUFFICES RunsHaveReturned'
  BY <1>1 DEF RefinementInv
<1>3. CASE \/ TimeOut \/ UNCHANGED vars
  <2>1. P' = P /\ phase' = phase /\ held' = held /\ pending' = pending /\ todo' = todo
    BY <1>3 DEF TimeOut, vars, contextVars, P
  <2>2. \A c, k : AppliedWorlds(c, k)' = AppliedWorlds(c, k)
    BY <2>1 DEF AppliedWorlds
  <2> QED BY <1>1, <2>1, <2>2 DEF RunsHaveReturned
<1>4. CASE \/ RunLoop \/ EndOfStep \/ LocalTermination \/ BeginMerge \/ MergePair \/ EndMerge
           \/ Dispatch
  BY <1>4 DEF RunLoop, EndOfStep, LocalTermination, BeginMerge, MergePair, EndMerge, Dispatch,
              RunsHaveReturned
<1>5. CASE \/ HandlePassThroughVertex \/ VisitAssignmentInstruction \/ VisitIfInstruction
           \/ VisitCallInstruction \/ HandleProgramExitVertex \/ HandleFunctionBlockExitVertex
  <2>1. ExecutesStep \/ WaitsAtCall
    BY <1>1, <1>5, HandlePassThroughVertexRuns, VisitAssignmentInstructionRuns,
       VisitIfInstructionRuns, VisitCallInstructionRuns, HandleProgramExitVertexRuns,
       HandleFunctionBlockExitVertexRuns DEF RunsInv
  <2>2. ExecutesStep => phase' = "dispatch"
    BY DEF ExecutesStep, Return
  <2> QED BY <1>1, <2>1, <2>2, WaitsAtCallReturns DEF RunsHaveReturned
<1>6. CASE ApplyNextSummary
  BY <1>1, <1>6, ApplyNextSummaryReturns
<1> QED BY <1>3, <1>4, <1>5, <1>6 DEF Next, EngineStep, Done

(* It holds at the start.                                                  *)
LEMMA InitRefines ==
  ASSUME Init, Faithful, prog \in CoveredPrograms
  PROVE  RefinementInv
<1>1. CoverageInv
  BY InitRuns, InitCovered
<1> QED BY <1>1 DEF Init, RefinementInv, RunsHaveReturned

-----------------------------------------------------------------------------
(* Where the runs are.                                                     *)

(* A run that satisfies a path constraint is in its worlds.                *)
LEMMA SatisfiesForms ==
  \A w \in Worlds(P) : \A c : Satisfies(c, w) <=> w \in PathWorlds(P, c)
BY SatisfyingAt DEF Satisfies, PathWorlds

(* The share of a place is a part of the worlds of its context.            *)
LEMMA ShareIsPath ==
  ASSUME NEW a \in Places, NEW w \in Share(a)
  PROVE  w \in PathWorlds(P, ContextAt(a))
<1>1. CASE phase = "summarize" /\ a[1] = "held"
  BY <1>1, HeldShare DEF SharesApplied
<1>2. CASE ~(phase = "summarize" /\ a[1] = "held")
  BY <1>2, PlainPlace
<1> QED BY <1>1, <1>2

(* The held context, at a call, is the only one in the frame of the callee.*)
LEMMA HeldIsElsewhere ==
  ASSUME RefinementInv, phase = "summarize", NEW c, c = held[1],
         NEW w \in Worlds(P), NEW a \in Places, w \in Share(a), ContextAt(a) = c
  PROVE  a[1] = "held"
<1>1. RunsInv /\ RunsHaveReturned
  BY DEF RefinementInv, CoverageInv
<1>2. PICK h : h = <<"held", 0, 1>>
  OBVIOUS
<1>3. h \in Places /\ ContextAt(h) = c /\ h[1] = "held" /\ DOMAIN held = {1} /\ ContextOK(P, c)
  BY <1>1, <1>2, WaitingContext
<1>4. SharedOut(Worlds(P), Places, [place \in Places |-> Share(place)])
  BY <1>1 DEF RunsInv, WorldsAreSharedOut
<1>5. \A b \in Places : w \in Share(b) <=> b = a
  BY <1>4 DEF SharedOut
<1>6. w \in PathWorlds(P, c)
  BY ShareIsPath
<1>7. CASE \E k \in todo : w \in AppliedWorlds(c, k)
  <2>1. w \in Share(h)
    BY <1>3, <1>7, HeldShare, AppliedForms DEF SharesApplied, Applies
  <2> QED BY <1>3, <1>5, <2>1
<1>8. CASE \E d \in RangeOf(pending) : w \in PathWorlds(P, d)
  <2>1. PICK d \in RangeOf(pending) : w \in PathWorlds(P, d)
    BY <1>8
  <2>2. PICK i \in DOMAIN pending : d = pending[i]
    BY <2>1 DEF RangeOf
  <2>3. PICK b : b = <<"pending", 0, i>>
    OBVIOUS
  <2>4. b \in Places /\ ContextAt(b) = d /\ b[1] # "held"
    BY <2>2, <2>3, PlaceForms, ContextForms
  <2>5. w \in Share(b)
    BY <2>1, <2>4, PlainPlace
  <2>6. c = d
    BY <1>5, <2>4, <2>5
  <2>7. d.stack = SubSeq(c.stack, 1, Len(c.stack) - 1)
    <3>1. d.stack = Caller(c).stack
      BY <1>1, <2>1 DEF RunsHaveReturned
    <3>2. Caller(c).stack = SubSeq(c.stack, 1, Len(c.stack) - 1)
      BY <1>1, WaitingContext
    <3> QED BY <3>1, <3>2
  <2>8. c.stack \in Seq([scope : DOMAIN P.scopes, ret : Nat]) /\ c.stack # <<>>
    BY <1>3 DEF ContextOK, StackOK
  <2> QED BY <2>6, <2>7, <2>8
<1> QED BY <1>1, <1>6, <1>7, <1>8 DEF RunsHaveReturned

(* There is one context that stands for the run of a world.                *)
LEMMA ContextOfRun ==
  ASSUME RefinementInv, phase # "done",
         NEW w \in Worlds(P), NEW a \in Places, w \in Share(a)
  PROVE  /\ ContextsOf(w) = {ContextAt(a)}
         /\ Position(Waiting(ContextAt(a))) = Position(StandsFor(a))
<1>1. RunsInv /\ RunsHaveReturned
  BY DEF RefinementInv, CoverageInv
<1>2. SharedOut(Worlds(P), Places, [place \in Places |-> Share(place)])
  BY <1>1 DEF RunsInv, WorldsAreSharedOut
<1>3. \A b \in Places : w \in Share(b) <=> b = a
  BY <1>2 DEF SharedOut
<1>4. \A c : Satisfies(c, w) <=> w \in PathWorlds(P, c)
  BY SatisfiesForms
<1>5. w \in PathWorlds(P, ContextAt(a))
  BY ShareIsPath
<1>6. CASE phase # "summarize"
  <2>1. ContextsOf(w) = {c \in Live : w \in PathWorlds(P, c)}
    BY <1>4, <1>6 DEF ContextsOf
  <2>2. \A b \in Places : w \in PathWorlds(P, ContextAt(b)) <=> b = a
    BY <1>3, <1>6, PlainPlace
  <2>3. ContextsOf(w) = {ContextAt(a)}
    BY <2>1, <2>2, LiveAtPlaces
  <2>4. Waiting(ContextAt(a)) = StandsFor(a)
    BY <1>6 DEF Waiting, StandsFor
  <2> QED BY <2>3, <2>4
<1>7. CASE phase = "summarize"
  <2>1. PICK c : c = held[1]
    OBVIOUS
  <2>2. PICK h : h = <<"held", 0, 1>>
    OBVIOUS
  <2>3. /\ h \in Places /\ ContextAt(h) = c /\ h[1] = "held" /\ DOMAIN held = {1} /\ c \in Live
    BY <1>1, <1>7, <2>1, <2>2, WaitingContext
  <2>4. RangeOf(held) = {c}
    BY <2>1, <2>3 DEF RangeOf
  <2>5. \A b \in Places : b[1] = "held" <=> b = h
    <3> SUFFICES ASSUME NEW b \in Places
                 PROVE  b[1] = "held" <=> b = h
      OBVIOUS
    <3>1. (\E i \in DOMAIN held : b = <<"held", 0, i>>) <=> b = h
      BY <2>2, <2>3
    <3> QED BY <2>3, <3>1, PlaceForms
  <2>6. \A b \in Places : w \in Share(b) => (ContextAt(b) = c <=> b = h)
    BY <1>7, <2>1, <2>3, <2>5, HeldIsElsewhere
  <2>7. \A b \in Places : b # h => Share(b) = PathWorlds(P, ContextAt(b))
    BY <2>5, PlainPlace
  <2>8. ContextsOf(w) = {e \in Live : /\ w \in PathWorlds(P, e)
                                      /\ e = c => \A d \in RangeOf(pending) : w \notin PathWorlds(P, d)}
    BY <1>4, <1>7, <2>4 DEF ContextsOf
  <2>9. \A d \in RangeOf(pending) : w \in PathWorlds(P, d) => a[1] = "pending"
    <3> SUFFICES ASSUME NEW d \in RangeOf(pending), w \in PathWorlds(P, d)
                 PROVE  a[1] = "pending"
      OBVIOUS
    <3>1. PICK i \in DOMAIN pending : d = pending[i]
      BY DEF RangeOf
    <3>2. PICK b : b = <<"pending", 0, i>>
      OBVIOUS
    <3>3. b \in Places /\ ContextAt(b) = d /\ b[1] = "pending"
      BY <3>1, <3>2, PlaceForms, ContextForms
    <3>4. w \in Share(b)
      BY <3>3, PlainPlace
    <3> QED BY <1>3, <3>3, <3>4
  <2>10. ASSUME NEW e \in ContextsOf(w)
         PROVE  e = ContextAt(a)
    <3>1. PICK b \in Places : ContextAt(b) = e
      BY <2>8, LiveAtPlaces
    <3>2. w \in PathWorlds(P, e)
      BY <2>8
    <3>3. CASE b # h
      BY <1>3, <2>7, <3>1, <3>2, <3>3
    <3>4. CASE b = h
      <4>1. e = c /\ \A d \in RangeOf(pending) : w \notin PathWorlds(P, d)
        BY <2>3, <2>8, <3>1, <3>4
      <4>2. \E k \in todo : w \in AppliedWorlds(c, k)
        BY <1>1, <1>7, <2>1, <3>2, <4>1 DEF RunsHaveReturned
      <4>3. w \in Share(h)
        BY <1>7, <2>3, <4>2, HeldShare, AppliedForms DEF SharesApplied, Applies
      <4> QED BY <1>3, <2>3, <3>1, <3>4, <4>3
    <3> QED BY <3>3, <3>4
  <2>11. ContextAt(a) \in ContextsOf(w)
    <3>1. ContextAt(a) \in Live
      BY LiveAtPlaces
    <3>2. ContextAt(a) = c => a[1] # "pending"
      BY <2>3, <2>6
    <3> QED BY <1>5, <2>8, <2>9, <3>1, <3>2
  <2>12. Waiting(ContextAt(a)) = StandsFor(a)
    <3>1. ContextAt(a) \in RangeOf(held) <=> a[1] = "held"
      BY <2>4, <2>5, <2>6
    <3> QED BY <1>7, <3>1 DEF Waiting, StandsFor, Caller
  <2>13. ContextsOf(w) = {ContextAt(a)}
    BY <2>10, <2>11
  <2> QED BY <2>12, <2>13
<1> QED BY <1>6, <1>7

(* The configuration that a context stands for is the one of the run.      *)
LEMMA ConfigurationOnTrace ==
  ASSUME RunsInv, NEW c, ContextOK(P, c), NEW w \in Worlds(P),
         NEW d, d.val = c.val, d.ver = c.ver, d.cycle = c.cycle, Follows(d, w),
         Position(Waiting(c)) = Position(d)
  PROVE  Configuration(c, w) = Trace[prog][w][Position(d)]
<1>1. PICK k : /\ OnTrace(w, k) /\ IsConfiguration(k) /\ Matches(d, w, k) /\ Position(k) = Position(d)
  BY FollowedConfiguration
<1>2. PICK r : r = Trace[prog][w]
  OBVIOUS
<1>3. Position(d) \in DOMAIN r /\ r[Position(d)] = k
  BY <1>1, <1>2 DEF OnTrace
<1>4. PICK env : env = [x \in DOMAIN c.ver |-> w \in CurrentValue(c, x).worlds]
  OBVIOUS
<1>5. env = k.env
  <2>1. DOMAIN c.ver = FlattenedInterface(P) /\ k.env \in [FlattenedInterface(P) -> BOOLEAN]
    BY <1>1 DEF ContextOK, IsConfiguration
  <2>2. \A x : CurrentValue(c, x) = CurrentValue(d, x)
    BY DEF CurrentValue, CurrentName
  <2>3. \A x \in FlattenedInterface(P) : k.env[x] <=> w \in CurrentValue(c, x).worlds
    BY <1>1, <2>2 DEF Matches
  <2>4. \A x \in FlattenedInterface(P) : k.env[x] = (w \in CurrentValue(c, x).worlds)
    <3> SUFFICES ASSUME NEW x \in FlattenedInterface(P)
                 PROVE  k.env[x] = (w \in CurrentValue(c, x).worlds)
      OBVIOUS
    <3>1. k.env[x] \in BOOLEAN
      BY <2>1
    <3>2. k.env[x] <=> w \in CurrentValue(c, x).worlds
      BY <2>3
    <3>3. CASE w \in CurrentValue(c, x).worlds
      BY <3>1, <3>2, <3>3
    <3>4. CASE w \notin CurrentValue(c, x).worlds
      BY <3>1, <3>2, <3>4
    <3> QED BY <3>3, <3>4
  <2>5. env = [x \in FlattenedInterface(P) |-> w \in CurrentValue(c, x).worlds]
    BY <1>4, <2>1
  <2>6. k.env = [x \in FlattenedInterface(P) |-> k.env[x]]
    BY <2>1
  <2>7. [x \in FlattenedInterface(P) |-> k.env[x]] =
          [x \in FlattenedInterface(P) |-> w \in CurrentValue(c, x).worlds]
    BY <2>4, Zenon
  <2> QED BY <2>5, <2>6, <2>7
<1>6. Configuration(c, w) = [r[Position(d)] EXCEPT !.env = env]
  <2>1. PICK p : p = Position(Waiting(c))
    OBVIOUS
  <2>2. p \in DOMAIN r
    BY <1>3, <2>1
  <2>3. Configuration(c, w) = [r[p] EXCEPT !.env = env]
    BY <1>2, <1>4, <2>1, <2>2 DEF Configuration
  <2> QED BY <2>1, <2>3
<1>7. Configuration(c, w) = k
  BY <1>1, <1>3, <1>5, <1>6 DEF IsConfiguration
<1> QED BY <1>2, <1>3, <1>7

(* RunsAt gives the configuration of every run, where the place that       *)
(* answers for it is.                                                      *)
RunsAreAt ==
  (RefinementInv /\ phase # "done") =>
    /\ RunsAt = [w \in Worlds(P) |-> RunsAt[w]]
    /\ \A w \in Worlds(P) : \A a \in Places :
         w \in Share(a) => RunsAt[w] = Trace[prog][w][Position(StandsFor(a))]

(* RunsAt finds the one context that answers for a world.                  *)
LEMMA RunsArePlaced == RunsAreAt
<1> SUFFICES ASSUME RefinementInv, phase # "done"
             PROVE  /\ RunsAt = [w \in Worlds(P) |-> RunsAt[w]]
                    /\ \A w \in Worlds(P) : \A a \in Places :
                         w \in Share(a) => RunsAt[w] = Trace[prog][w][Position(StandsFor(a))]
  BY DEF RunsAreAt
<1>1. RunsInv
  BY DEF RefinementInv, CoverageInv
<1> DEFINE At(found, w) ==
             IF found = {} THEN [lost |-> w] ELSE Configuration(CHOOSE c \in found : TRUE, w)
           Chosen(w) == CHOOSE k \in {At(found, w) : found \in {ContextsOf(w)}} : TRUE
           R == [w \in Worlds(P) |-> Chosen(w)]
<1>2. RunsAt = R
  <2>1. RunsAt = Tabulated(R)
    BY Zenon DEF RunsAt
  <2> HIDE DEF R
  <2> QED BY <2>1, TabulatedIsItself
<1>3. ASSUME NEW w \in Worlds(P), NEW a \in Places, w \in Share(a)
      PROVE  R[w] = Trace[prog][w][Position(StandsFor(a))]
  <2>1. PICK c : c = ContextAt(a)
    OBVIOUS
  <2>2. ContextsOf(w) = {c} /\ Position(Waiting(c)) = Position(StandsFor(a))
    BY <1>3, <2>1, ContextOfRun
  <2>3. {At(found, w) : found \in {ContextsOf(w)}} = {At({c}, w)}
    <3> HIDE DEF At
    <3> QED BY <2>2
  <2>4. At({c}, w) = Configuration(c, w)
    <3>1. (CHOOSE e \in {c} : TRUE) = c
      OBVIOUS
    <3> QED BY <3>1, Zenon
  <2>5. R[w] = Configuration(c, w)
    <3>1. R[w] = CHOOSE k \in {At(found, w) : found \in {ContextsOf(w)}} : TRUE
      BY Zenon
    <3> HIDE DEF At, R, Chosen
    <3> QED BY <2>3, <2>4, <3>1
  <2>6. ContextOK(P, c)
    BY <1>1, <2>1, LiveAtPlaces DEF RunsInv, Inv, ControlInv, ContextsOK
  <2>7. w \in PathWorlds(P, c)
    BY <1>3, <2>1, ShareIsPath
  <2>8. PICK d : d = StandsFor(a)
    OBVIOUS
  <2>9. Follows(d, w)
    BY <1>1, <2>1, <2>7, <2>8 DEF RunsInv, ContextsFollowRuns
  <2>10. d.val = c.val /\ d.ver = c.ver /\ d.cycle = c.cycle
    BY <2>1, <2>6, <2>8 DEF StandsFor, Caller, ContextOK
  <2>11. Configuration(c, w) = Trace[prog][w][Position(d)]
    BY <1>1, <2>2, <2>6, <2>8, <2>9, <2>10, ConfigurationOnTrace
  <2> HIDE DEF R
  <2> QED BY <2>5, <2>8, <2>11
<1>4. R = [w \in Worlds(P) |-> R[w]]
  <2> HIDE DEF Chosen
  <2> QED OBVIOUS
<1> HIDE DEF R
<1> QED BY <1>2, <1>3, <1>4

(* The same after a step.                                                  *)
LEMMA NextRunsArePlaced == RunsAreAt'
BY RunsArePlaced, PTL

-----------------------------------------------------------------------------
(* Steps of ScanCycle.                                                     *)

(* What is newly covered has been taken by one of the runs.                *)
Reports(after) ==
  /\ branches \subseteq branches'
  /\ branches' = branches \/ \E w \in DOMAIN after : branches' \subseteq branches \cup after[w].taken

(* Such a report is one that ScanCycle allows.                             *)
LEMMA ReportsTaken ==
  ASSUME NEW after, Reports(after)
  PROVE  Abstract!Report(after)
<1>1. branches' \subseteq branches \cup UNION {after[w].taken : w \in DOMAIN after}
  BY DEF Reports
<1> QED BY <1>1 DEF Reports, Abstract!Report

(* The two modules count alike.                                            *)
LEMMA SameCardinality == \A S : Abstract!Cardinality(S) = Cardinality(S)
BY Zenon DEF Abstract!Cardinality, Cardinality

(* Runs that stand at one position move on.                                *)
LEMMA RunsAdvance ==
  ASSUME NEW before, before = RunsAt, NEW after, after = RunsAt',
         prog' = prog, timedOut' = timedOut, DOMAIN after = DOMAIN before, Reports(after),
         NEW pos,
         \A w \in DOMAIN before :
           \/ after[w] = before[w]
           \/ /\ Position(before[w]) = pos
              /\ ~Abstract!AtProgramExit(before[w])
              /\ after[w] \in Abstract!Following(w, before[w])
  PROVE  Abstract!Next
<1>1. PICK moving : moving = {w \in DOMAIN before : after[w] # before[w]}
  OBVIOUS
<1>2. \A w \in moving : /\ ~Abstract!AtProgramExit(before[w])
                        /\ after[w] \in Abstract!Following(w, before[w])
  BY <1>1
<1>3. {Abstract!Position(before[w]) : w \in moving} \in {{}, {pos}}
  <2>1. \A w \in moving : Abstract!Position(before[w]) = pos
    BY <1>1, SameRuns
  <2> QED BY <2>1
<1>4. Abstract!Cardinality({Abstract!Position(before[w]) : w \in moving}) <= 1
  <2>1. Cardinality({}) = 0 /\ Cardinality({pos}) = 1
    BY FS_EmptySet, FS_Singleton
  <2> QED BY <1>3, <2>1, SameCardinality
<1>5. Abstract!Advance(before, after)
  <2>1. \E m \in {{w \in DOMAIN before : after[w] # before[w]}} :
          /\ \A w \in m : /\ ~Abstract!AtProgramExit(before[w])
                          /\ after[w] \in Abstract!Following(w, before[w])
          /\ Abstract!Cardinality({Abstract!Position(before[w]) : w \in m}) <= 1
    BY <1>1, <1>2, <1>4
  <2>2. Abstract!Report(after)
    BY ReportsTaken
  <2>3. UNCHANGED <<prog, timedOut>>
    OBVIOUS
  <2> QED BY <2>1, <2>2, <2>3 DEF Abstract!Advance
<1> QED BY <1>5 DEF Abstract!Next

(* No run moves.                                                           *)
LEMMA RunsRest ==
  ASSUME RunsAt' = RunsAt, prog' = prog, timedOut' = timedOut, Reports(RunsAt)
  PROVE  Abstract!Next
<1>1. PICK before : before = RunsAt
  OBVIOUS
<1>2. PICK after : after = RunsAt'
  OBVIOUS
<1>3. before = after
  BY <1>1, <1>2
<1> QED BY <1>1, <1>2, <1>3, RunsAdvance

-----------------------------------------------------------------------------
(* Steps of the engine that move no run.                                   *)

(* A step after which every run is where it was moves none.                *)
LEMMA RunsStay ==
  ASSUME RefinementInv, RefinementInv', phase # "done", phase' # "done", prog' = prog,
         \A w \in Worlds(P) : \A a \in Places' : w \in Share(a)' =>
           \E b \in Places : w \in Share(b) /\ Position(StandsFor(b)) = Position(StandsFor(a)')
  PROVE  RunsAt' = RunsAt
<1>1. P' = P
  BY DEF P
<1>2. /\ RunsAt = [w \in Worlds(P) |-> RunsAt[w]]
      /\ \A w \in Worlds(P) : \A a \in Places :
           w \in Share(a) => RunsAt[w] = Trace[prog][w][Position(StandsFor(a))]
  BY RunsArePlaced DEF RunsAreAt
<1>3. /\ RunsAt' = [w \in Worlds(P) |-> RunsAt'[w]]
      /\ \A w \in Worlds(P) : \A a \in Places' :
           w \in Share(a)' => RunsAt'[w] = Trace[prog][w][Position(StandsFor(a)')]
  BY <1>1, NextRunsArePlaced DEF RunsAreAt
<1>4. ASSUME NEW w \in Worlds(P)
      PROVE  RunsAt'[w] = RunsAt[w]
  <2>1. SharedOut(Worlds(P), Places', [place \in Places' |-> Share(place)'])
    BY <1>1 DEF RefinementInv, CoverageInv, RunsInv, WorldsAreSharedOut
  <2>2. PICK a \in Places' : w \in Share(a)'
    BY <2>1 DEF SharedOut
  <2>3. PICK b \in Places : w \in Share(b) /\ Position(StandsFor(b)) = Position(StandsFor(a)')
    BY <2>2
  <2> QED BY <1>2, <1>3, <2>2, <2>3
<1> QED BY <1>2, <1>3, <1>4

(* When no call is being summarized it is enough to look at the contexts.  *)
LEMMA LiveRunsStay ==
  ASSUME RefinementInv, RefinementInv', prog' = prog,
         phase \notin {"summarize", "done"}, phase' \notin {"summarize", "done"},
         \A d \in Live' : \A w \in PathWorlds(P, d) :
           \E c \in Live : w \in PathWorlds(P, c) /\ Position(c) = Position(d)
  PROVE  RunsAt' = RunsAt
<1>1. ASSUME NEW w \in Worlds(P), NEW a \in Places', w \in Share(a)'
      PROVE  \E b \in Places : w \in Share(b) /\ Position(StandsFor(b)) = Position(StandsFor(a)')
  <2>1. PICK d : d = ContextAt(a)'
    OBVIOUS
  <2>2. d \in Live' /\ w \in PathWorlds(P, d) /\ StandsFor(a)' = d
    BY <1>1, <2>1, NextPlaces, NextPlainPlace
  <2>3. PICK c \in Live : w \in PathWorlds(P, c) /\ Position(c) = Position(d)
    BY <2>2
  <2>4. PICK b \in Places : ContextAt(b) = c
    BY LiveAtPlaces
  <2>5. w \in Share(b) /\ StandsFor(b) = c
    BY <2>3, <2>4, PlainPlace
  <2> QED BY <2>2, <2>3, <2>5
<1> QED BY <1>1, RunsStay

(* The run of a live context.                                              *)
LEMMA RunOfContext ==
  ASSUME RefinementInv, phase \notin {"summarize", "done"},
         NEW c \in Live, NEW w \in PathWorlds(P, c)
  PROVE  w \in Worlds(P) /\ w \in DOMAIN RunsAt /\ RunsAt[w] = Trace[prog][w][Position(c)]
<1>1. w \in Worlds(P)
  BY SatisfyingAt DEF PathWorlds
<1>2. PICK a \in Places : ContextAt(a) = c
  BY LiveAtPlaces
<1>3. w \in Share(a) /\ StandsFor(a) = c
  BY <1>2, PlainPlace
<1> QED BY <1>1, <1>2, <1>3, RunsArePlaced DEF RunsAreAt

-----------------------------------------------------------------------------
(* The engine's steps that move no run.                                    *)

(* A step that only drops or keeps contexts moves no run.                  *)
LEMMA LiveContextsRest ==
  ASSUME RefinementInv, RefinementInv', prog' = prog, timedOut' = timedOut, branches' = branches,
         phase \notin {"summarize", "done"}, phase' \notin {"summarize", "done"},
         Live' \subseteq Live
  PROVE  Abstract!Next
<1>1. RunsAt' = RunsAt
  BY LiveRunsStay
<1>2. Reports(RunsAt)
  BY DEF Reports
<1> QED BY <1>1, <1>2, RunsRest

(* The loop of Engine::run and the merger hand contexts on as they are.    *)
LEMMA HandOnRests ==
  ASSUME RefinementInv, RefinementInv',
         \/ RunLoop /\ phase' = "step"
         \/ EndOfStep \/ BeginMerge \/ EndMerge
  PROVE  Abstract!Next
<1>1. Inv
  BY DEF RefinementInv, CoverageInv, RunsInv
<1>2. Live' \subseteq Live
  BY <1>1, HandOnLive, BeginMergeLive
<1>3. /\ prog' = prog /\ timedOut' = timedOut /\ branches' = branches
      /\ phase \notin {"summarize", "done"} /\ phase' \notin {"summarize", "done"}
  BY DEF RunLoop, EndOfStep, BeginMerge, EndMerge, coverageVars
<1> QED BY <1>2, <1>3, LiveContextsRest

(* A merged context stands for the runs of the two.                        *)
LEMMA MergePairRests ==
  ASSUME RefinementInv, RefinementInv', MergePair
  PROVE  Abstract!Next
<1>1. PICK c1, c2, d, rest : /\ c1 = held[1] /\ c2 = held[2] /\ d = Merge(P, version, c1, c2)
                             /\ rest = SubSeq(held, 3, Len(held))
  OBVIOUS
<1>2. /\ prog' = prog /\ timedOut' = timedOut /\ branches' = branches
      /\ phase = "merge" /\ phase' = "merge" /\ Len(held) > 1 /\ held' = <<d>> \o rest
      /\ explorer' = explorer /\ merger' = merger /\ succeeding' = succeeding /\ pending' = pending
  BY <1>1 DEF MergePair, coverageVars
<1>3. /\ PathWorlds(P, d) = PathWorlds(P, c1) \cup PathWorlds(P, c2)
      /\ Position(d) = Position(c1) /\ Position(d) = Position(c2)
  BY <1>1, <1>2, MergedFollows DEF RefinementInv, CoverageInv
<1>4. IsSeq(held)
  BY DEF RefinementInv, CoverageInv, RunsInv, Inv, ControlInv, EngineOK
<1>5. c1 \in RangeOf(held) /\ c2 \in RangeOf(held) /\ RangeOf(held') \subseteq RangeOf(held) \cup {d}
  <2>1. held \in Seq(RangeOf(held)) /\ DOMAIN held = 1 .. Len(held) /\ Len(held) \in Nat
    BY <1>4 DEF IsSeq, RangeOf
  <2>2. rest \in Seq(RangeOf(held))
    BY <1>1, <2>1
  <2>3. held' \in Seq(RangeOf(held) \cup {d})
    BY <1>2, <2>2
  <2>4. RangeOf(held') \subseteq RangeOf(held) \cup {d}
    BY <2>3 DEF RangeOf
  <2>5. 1 \in DOMAIN held /\ 2 \in DOMAIN held
    BY <1>2, <2>1
  <2>6. held[1] \in RangeOf(held) /\ held[2] \in RangeOf(held)
    BY <2>5 DEF RangeOf
  <2> QED BY <1>1, <2>4, <2>6
<1>6. Live' \subseteq Live \cup {d} /\ c1 \in Live /\ c2 \in Live
  <2>1. InMerger' = InMerger
    BY <1>2 DEF InMerger
  <2> QED BY <1>2, <1>5, <2>1 DEF Live
<1>7. \A e \in Live' : \A w \in PathWorlds(P, e) :
        \E c \in Live : w \in PathWorlds(P, c) /\ Position(c) = Position(e)
  BY <1>3, <1>6
<1>8. RunsAt' = RunsAt
  BY <1>2, <1>7, LiveRunsStay
<1>9. Reports(RunsAt)
  BY <1>2 DEF Reports
<1> QED BY <1>2, <1>8, <1>9, RunsRest

(* The branch to a succeeding context has been taken by its runs.          *)
LEMMA DispatchRests ==
  ASSUME RefinementInv, RefinementInv', Dispatch
  PROVE  Abstract!Next
<1>1. PICK c, new : /\ c = Head(pending) /\ new = BranchesTaken(CfgOf(P, Scope(c)), source, c.label)
  OBVIOUS
<1>2. /\ prog' = prog /\ timedOut' = timedOut /\ phase = "dispatch"
      /\ phase' \in {"step", "dispatch"} /\ pending # <<>> /\ branches' = branches \cup new
      /\ ~(new \subseteq branches) => DeriveTestCase(c)
  BY <1>1, Zenon DEF Dispatch
<1>3. CoverageInv /\ Inv /\ IsSeq(pending)
  BY DEF RefinementInv, CoverageInv, RunsInv, Inv, ControlInv, EngineOK
<1>4. Live' \subseteq Live
  BY <1>3, DispatchLive
<1>5. RunsAt' = RunsAt
  BY <1>2, <1>4, LiveRunsStay
<1>6. c \in RangeOf(pending)
  BY <1>1, <1>2, <1>3 DEF IsSeq, RangeOf
<1>7. BranchesPending(c) /\ c \in Live
  BY <1>2, <1>3, <1>6 DEF CoverageInv, BranchesAreRecorded, Live
<1>8. Reports(RunsAt)
  <2>1. CASE new \subseteq branches
    BY <1>2, <2>1 DEF Reports
  <2>2. CASE ~(new \subseteq branches)
    <3>1. PICK w \in PathWorlds(P, c) : TRUE
      BY <1>2, <2>2 DEF DeriveTestCase
    <3>2. w \in DOMAIN RunsAt /\ RunsAt[w] = Trace[prog][w][Position(c)]
      BY <1>2, <1>7, RunOfContext
    <3>3. new \subseteq RunsAt[w].taken
      BY <1>1, <1>7, <3>2 DEF BranchesPending, TakenAt
    <3> QED BY <1>2, <3>2, <3>3 DEF Reports
  <2> QED BY <2>1, <2>2
<1> QED BY <1>2, <1>5, <1>8, RunsRest

(* A context that comes to a call waits there.                             *)
LEMMA WaitsAtCallRests ==
  ASSUME RefinementInv, RefinementInv', WaitsAtCall
  PROVE  Abstract!Next
<1>1. PICK c, callee :
        /\ c \in explorer /\ Pop(c) /\ Caller(callee) = c
        /\ PathWorlds(P, callee) = PathWorlds(P, c)
        /\ held' = <<callee>> /\ phase' = "summarize" /\ pending' = pending
  BY DEF WaitsAtCall
<1>2. /\ prog' = prog /\ P' = P /\ phase = "step" /\ explorer' = explorer \ {c}
      /\ merger' = merger /\ succeeding' = succeeding /\ timedOut' = timedOut
      /\ branches' = branches
  BY <1>1 DEF Pop, P, coverageVars
<1>3. DOMAIN held' = {1} /\ held'[1] = callee
  BY <1>1
<1>4. PICK old, here : old = <<"explorer", c, 0>> /\ here = <<"held", 0, 1>>
  OBVIOUS
<1>5. old \in Places /\ ContextAt(old) = c /\ ContextAt(here)' = callee /\ here[1] = "held"
  BY <1>1, <1>3, <1>4, PlaceForms, ContextForms, NextPlaces
<1>6. StandsFor(old) = c /\ Share(old) = PathWorlds(P, c)
  BY <1>2, <1>5, PlainPlace
<1>7. StandsFor(here)' = c
  BY <1>1, <1>5 DEF StandsFor, Caller
<1>8. \A w \in Share(here)' : w \in PathWorlds(P, c)
  <2>1. Share(here)' = SharesApplied(P', callee, todo')
    BY <1>1, <1>5, NextHeldShare
  <2> QED BY <1>1, <1>2, <2>1 DEF SharesApplied
<1>9. ASSUME NEW a \in Places', a # here
      PROVE  a \in Places /\ StandsFor(a) = StandsFor(a)' /\ Share(a) = Share(a)'
  <2>1. \/ \E d \in explorer : a = <<"explorer", d, 0>>
        \/ \E d \in succeeding : a = <<"succeeding", d, 0>>
        \/ \E m \in DOMAIN merger : \E i \in DOMAIN merger[m] : a = <<"merger", m, i>>
        \/ \E i \in DOMAIN pending : a = <<"pending", 0, i>>
    <3>1. \/ \E d \in explorer' : a = <<"explorer", d, 0>>
          \/ \E d \in succeeding' : a = <<"succeeding", d, 0>>
          \/ \E m \in DOMAIN merger' : \E i \in DOMAIN (merger'[m]) : a = <<"merger", m, i>>
          \/ \E i \in DOMAIN held' : a = <<"held", 0, i>>
          \/ \E i \in DOMAIN pending' : a = <<"pending", 0, i>>
      BY NextPlaces
    <3>2. ~(\E i \in DOMAIN held' : a = <<"held", 0, i>>)
      BY <1>3, <1>4, <1>9
    <3> QED BY <1>1, <1>2, <3>1, <3>2
  <2>2. a \in Places
    BY <2>1, PlaceForms
  <2>3. a[1] # "held" /\ ContextAt(a)' = ContextAt(a)
    <3>1. CASE \E d \in explorer : a = <<"explorer", d, 0>>
      BY <3>1, ContextForms, NextPlaces
    <3>2. CASE \E d \in succeeding : a = <<"succeeding", d, 0>>
      BY <3>2, ContextForms, NextPlaces
    <3>3. CASE \E m \in DOMAIN merger : \E i \in DOMAIN merger[m] : a = <<"merger", m, i>>
      BY <1>2, <3>3, ContextForms, NextPlaces
    <3>4. CASE \E i \in DOMAIN pending : a = <<"pending", 0, i>>
      BY <1>1, <3>4, ContextForms, NextPlaces
    <3> QED BY <2>1, <3>1, <3>2, <3>3, <3>4
  <2> QED BY <1>2, <2>2, <2>3, PlainPlace, NextPlainPlace
<1>10. \A w \in Worlds(P) : \A a \in Places' : w \in Share(a)' =>
         \E b \in Places : w \in Share(b) /\ Position(StandsFor(b)) = Position(StandsFor(a)')
  <2> SUFFICES ASSUME NEW w \in Worlds(P), NEW a \in Places', w \in Share(a)'
               PROVE  \E b \in Places : w \in Share(b) /\ Position(StandsFor(b)) = Position(StandsFor(a)')
    OBVIOUS
  <2>1. CASE a = here
    BY <1>5, <1>6, <1>7, <1>8, <2>1
  <2>2. CASE a # here
    BY <1>9, <2>2
  <2> QED BY <2>1, <2>2
<1>11. RunsAt' = RunsAt
  BY <1>1, <1>2, <1>10, RunsStay
<1>12. Reports(RunsAt)
  BY <1>2 DEF Reports
<1> QED BY <1>2, <1>11, <1>12, RunsRest

(* Steps that leave the contexts where they are.                           *)
LEMMA StutterRests ==
  ASSUME RefinementInv, RefinementInv',
         UNCHANGED <<prog, phase, explorer, merger, succeeding, held, pending, todo>>
  PROVE  RunsAt' = RunsAt
<1>1. P' = P /\ Places' = Places /\ phase' = phase
  BY DEF P, Places
<1>2. \A a : ContextAt(a)' = ContextAt(a)
  BY DEF ContextAt
<1>3. \A a : StandsFor(a)' = StandsFor(a)
  BY <1>2 DEF StandsFor
<1>4. \A a : Share(a)' = Share(a)
  <2> SUFFICES ASSUME NEW a
               PROVE  Share(a)' = Share(a)
    OBVIOUS
  <2>1. CASE phase = "summarize" /\ a[1] = "held"
    BY <1>1, <1>2, <2>1, HeldShare, NextHeldShare
  <2>2. CASE phase # "summarize" \/ a[1] # "held"
    BY <1>1, <1>2, <2>2, PlainPlace, NextPlainPlace
  <2> QED BY <2>1, <2>2
<1>5. CASE phase = "done"
  BY <1>1, <1>5 DEF RunsAt
<1>6. CASE phase # "done"
  BY <1>1, <1>3, <1>4, <1>6, RunsStay
<1> QED BY <1>5, <1>6

(* A time-out interrupts the runs and moves none.                          *)
LEMMA TimeOutInterrupts ==
  ASSUME RefinementInv, RefinementInv', TimeOut
  PROVE  Abstract!Next
<1>1. /\ UNCHANGED <<prog, phase, explorer, merger, succeeding, held, pending, todo, branches>>
      /\ timedOut' = TRUE
  BY DEF TimeOut, contextVars, coverageVars
<1>2. RunsAt' = RunsAt
  BY <1>1, StutterRests
<1>3. PICK before : before = RunsAt
  OBVIOUS
<1>4. Abstract!Interrupt(before, before)
  BY <1>1 DEF Abstract!Interrupt
<1> QED BY <1>2, <1>3, <1>4 DEF Abstract!Next

(* An engine that is done stutters.                                        *)
LEMMA DoneRests ==
  ASSUME RefinementInv, RefinementInv', UNCHANGED vars
  PROVE  UNCHANGED <<prog, RunsAt, branches, timedOut>>
<1>1. UNCHANGED <<prog, phase, explorer, merger, succeeding, held, pending, todo, branches, timedOut>>
  BY DEF vars, contextVars, coverageVars
<1> QED BY <1>1, StutterRests

-----------------------------------------------------------------------------
(* The executor moves the runs of one context by one step.                 *)

(* After a step, the run of a world is where some live context is.         *)
LEMMA NextRunOfWorld ==
  ASSUME RefinementInv', phase' \notin {"summarize", "done"}, prog' = prog,
         NEW w \in Worlds(P)
  PROVE  \E d \in Live' : w \in PathWorlds(P, d) /\ RunsAt'[w] = Trace[prog][w][Position(d)]
<1>1. P' = P
  BY DEF P
<1>2. SharedOut(Worlds(P), Places', [place \in Places' |-> Share(place)'])
  BY <1>1 DEF RefinementInv, CoverageInv, RunsInv, WorldsAreSharedOut
<1>3. PICK a \in Places' : w \in Share(a)'
  BY <1>2 DEF SharedOut
<1>4. PICK d : d = ContextAt(a)'
  OBVIOUS
<1>5. d \in Live' /\ w \in PathWorlds(P, d) /\ StandsFor(a)' = d
  BY <1>3, <1>4, NextPlaces, NextPlainPlace
<1>6. RunsAt'[w] = Trace[prog][w][Position(d)]
  BY <1>1, <1>3, <1>5, NextRunsArePlaced DEF RunsAreAt
<1> QED BY <1>5, <1>6

(* Where the run of a context is after the step to d.                      *)
LEMMA StepOfRun ==
  ASSUME RunsInv, NEW c \in explorer, Pop(c), NEW w \in PathWorlds(P, c), NEW d,
         StepsTo(c, d, w), NEW k, k = Trace[prog][w][Position(c)]
  PROVE  /\ Position(k) = Position(c) /\ IsConfiguration(k) /\ Matches(c, w, k)
         /\ Trace[prog][w][Position(d)] = ConcreteStep(P, w, k)
<1>1. /\ prog \in Programs /\ c.cycle = cycle /\ cycle # CycleBound
      /\ w \in Worlds(P) /\ Follows(c, w)
  BY PoppedFollows
<1>2. PICK j : OnTrace(w, j) /\ IsConfiguration(j) /\ Matches(c, w, j) /\ Position(j) = Position(c)
  BY <1>1, FollowedConfiguration
<1>3. j = k /\ Position(c) \in DOMAIN Trace[prog][w]
  BY <1>2 DEF OnTrace
<1>4. PICK next : next = ConcreteStep(P, w, k)
  OBVIOUS
<1>5. Matches(d, w, next)
  BY <1>2, <1>3, <1>4 DEF StepsTo
<1>6. Position(next) = Position(d)
  BY <1>5 DEF Matches, Position
<1>7. Trace[prog][w][Position(c)].cycle # CycleBound
  BY <1>1, <1>2, <1>3 DEF Matches
<1>8. Trace[prog][w][Position(next)] = next
  BY <1>1, <1>3, <1>4, <1>7, TraceStep DEF P
<1> QED BY <1>2, <1>3, <1>4, <1>6, <1>8

(* The exit of the program ends the cycle.                                 *)
LEMMA StepAtProgramExit ==
  ASSUME RunsInv, NEW c \in explorer, Pop(c), AtProgramExit(c), NEW w, NEW k, Matches(c, w, k)
  PROVE  ConcreteStep(P, w, k) = ConcreteNextCycle(P, w, k)
<1>1. ContextOK(P, c) /\ WellFormed(P) /\ WellFormedVertex(P, Scope(c), c.label)
  BY PoppedVertex
<1>2. Scope(c) = MainScope(P) /\ CfgOf(P, Scope(c)).type = "PROGRAM"
  BY <1>1, FramesOfContext DEF AtProgramExit
<1>3. Vertex(c).type = "EXIT"
  BY <1>1, <1>2 DEF WellFormedVertex, Vertex, MainCfg, AtProgramExit
<1> QED BY <1>2, <1>3, StepOfPopped DEF StepAt

(* A context is at the exit of the program where its runs are.             *)
LEMMA AtExitTogether ==
  ASSUME NEW c, NEW w, NEW k, Matches(c, w, k)
  PROVE  Abstract!AtProgramExit(k) <=> AtProgramExit(c)
BY SameProgram DEF Abstract!AtProgramExit, AtProgramExit, Matches, Depth, P

(* A step of the executor moves the runs of its context, or, at the exit   *)
(* of the program, those of all worlds.                                    *)
LEMMA ExecutesStepAdvances ==
  ASSUME RefinementInv, RefinementInv', ExecutesStep
  PROVE  Abstract!Next
<1>1. PICK c, contexts :
        c \in explorer /\ Pop(c) /\ Return(contexts) /\ StepsAlong(c, contexts)
  BY DEF ExecutesStep
<1>2. /\ prog' = prog /\ P' = P /\ timedOut' = timedOut /\ branches' = branches
      /\ phase = "step" /\ phase' = "dispatch"
  BY <1>1 DEF Pop, Return, P, coverageVars
<1>3. RunsInv /\ ControlInv
  BY DEF RefinementInv, CoverageInv, RunsInv, Inv
<1>4. /\ Live' \subseteq Live \cup RangeOf(contexts) /\ c \in Live
      /\ AtProgramExit(c) => Live = {c} /\ Live' = RangeOf(contexts)
  BY <1>1, <1>3, ReturnLive
<1>5. PICK before, after : before = RunsAt /\ after = RunsAt'
  OBVIOUS
<1>6. /\ DOMAIN before = Worlds(P) /\ DOMAIN after = Worlds(P)
  BY <1>2, <1>5, RunsArePlaced, NextRunsArePlaced DEF RunsAreAt
<1>7. ASSUME NEW d \in RangeOf(contexts), NEW w \in PathWorlds(P, d)
      PROVE  /\ w \in PathWorlds(P, c) /\ Position(before[w]) = Position(c)
             /\ Matches(c, w, before[w])
             /\ Trace[prog][w][Position(d)] = ConcreteStep(P, w, before[w])
  <2>1. w \in PathWorlds(P, c) /\ StepsTo(c, d, w)
    BY <1>1, <1>7 DEF StepsAlong, RangeOf
  <2>2. before[w] = Trace[prog][w][Position(c)]
    BY <1>2, <1>4, <1>5, <2>1, RunOfContext
  <2> QED BY <1>1, <1>3, <2>1, <2>2, StepOfRun
<1>8. \A w \in Worlds(P) : \E d \in Live' :
        w \in PathWorlds(P, d) /\ after[w] = Trace[prog][w][Position(d)]
  BY <1>2, <1>5, NextRunOfWorld
<1>9. Reports(after)
  BY <1>2 DEF Reports
<1>10. CASE AtProgramExit(c)
  <2>1. ASSUME NEW w \in DOMAIN before
        PROVE  /\ Abstract!AtProgramExit(before[w])
               /\ after[w] = Abstract!ConcreteNextCycle(Code[prog], w, before[w])
    <3>1. PICK d \in RangeOf(contexts) :
            w \in PathWorlds(P, d) /\ after[w] = Trace[prog][w][Position(d)]
      BY <1>4, <1>6, <1>8, <1>10
    <3>2. Matches(c, w, before[w]) /\ after[w] = ConcreteStep(P, w, before[w])
      BY <1>7, <3>1
    <3>3. after[w] = ConcreteNextCycle(P, w, before[w])
      BY <1>1, <1>3, <1>10, <3>2, StepAtProgramExit
    <3> QED BY <1>10, <3>2, <3>3, AtExitTogether, SameRuns DEF P
  <2>2. Abstract!Report(after)
    BY <1>9, ReportsTaken
  <2>3. Abstract!Scan(before, after)
    BY <1>2, <1>6, <2>1, <2>2 DEF Abstract!Scan
  <2> QED BY <1>5, <2>3 DEF Abstract!Next
<1>11. CASE ~AtProgramExit(c)
  <2>1. ASSUME NEW w \in DOMAIN before
        PROVE  \/ after[w] = before[w]
               \/ /\ Position(before[w]) = Position(c)
                  /\ ~Abstract!AtProgramExit(before[w])
                  /\ after[w] \in Abstract!Following(w, before[w])
    <3>1. PICK d \in Live' :
            w \in PathWorlds(P, d) /\ after[w] = Trace[prog][w][Position(d)]
      BY <1>6, <1>8
    <3>2. CASE d \in Live
      BY <1>2, <1>5, <3>1, <3>2, RunOfContext
    <3>3. CASE d \in RangeOf(contexts)
      <4>1. /\ Position(before[w]) = Position(c) /\ Matches(c, w, before[w])
            /\ after[w] = ConcreteStep(P, w, before[w])
        BY <1>7, <3>1, <3>3
      <4>2. after[w] = Abstract!ConcreteStep(Code[prog], w, before[w])
        BY <4>1, SameRuns DEF P
      <4> QED BY <1>11, <4>1, <4>2, AtExitTogether DEF Abstract!Following
    <3> QED BY <1>4, <3>1, <3>2, <3>3
  <2> QED BY <1>2, <1>5, <1>6, <1>9, <2>1, RunsAdvance
<1> QED BY <1>10, <1>11

-----------------------------------------------------------------------------
(* The engine stops only when it may.                                      *)

(* In the last cycle every run is at its end and what it took is covered.  *)
LEMMA RunsAtBound ==
  ASSUME RefinementInv, phase = "run", cycle >= CycleBound, NEW w \in DOMAIN RunsAt
  PROVE  RunsAt[w].cycle = CycleBound /\ RunsAt[w].taken \subseteq branches
<1>1. /\ CoverageInv /\ cycle = CycleBound
      /\ held = <<>> /\ pending = <<>> /\ succeeding = {}
  BY CycleBoundAssumption DEF RefinementInv, CoverageInv, RunsInv, Inv, ControlInv, EngineOK, PhasesOK
<1>2. w \in Worlds(P)
  BY RunsArePlaced DEF RunsAreAt
<1>3. PICK a \in Places : w \in Share(a)
  <2>1. SharedOut(Worlds(P), Places, [place \in Places |-> Share(place)])
    BY <1>1 DEF CoverageInv, RunsInv, WorldsAreSharedOut
  <2> QED BY <1>2, <2>1 DEF SharedOut
<1>4. PICK c : c = ContextAt(a)
  OBVIOUS
<1>5. StandsFor(a) = c /\ w \in PathWorlds(P, c)
  BY <1>3, <1>4, PlainPlace
<1>6. RunsAt[w] = Trace[prog][w][Position(c)]
  BY <1>2, <1>3, <1>5, RunsArePlaced DEF RunsAreAt
<1>7. c \in explorer \cup InMerger
  <2>1. c \in Live
    BY <1>4, LiveAtPlaces
  <2> QED BY <1>1, <2>1 DEF Live, RangeOf
<1>8. c.cycle = cycle /\ BranchesCovered(c)
  BY <1>1, <1>7 DEF CoverageInv, RunsInv, Inv, ControlInv, CyclesOK, BranchesAreRecorded
<1>9. Follows(c, w)
  BY <1>1, <1>3, <1>4, <1>5 DEF CoverageInv, RunsInv, ContextsFollowRuns
<1>10. Trace[prog][w][Position(c)].cycle = c.cycle
  BY <1>9 DEF Follows
<1> QED BY <1>1, <1>5, <1>6, <1>8, <1>10 DEF BranchesCovered, TakenAt

(* The engine ends when it is interrupted, when the branches are covered,  *)
(* or when all runs are at the cycle bound.                                *)
LEMMA EngineStops ==
  ASSUME RefinementInv, RefinementInv', (RunLoop /\ phase' = "done") \/ LocalTermination
  PROVE  Abstract!Next
<1>1. PICK before : before = RunsAt
  OBVIOUS
<1>2. /\ prog' = prog /\ timedOut' = timedOut /\ branches' = branches /\ phase' = "done"
  BY DEF RunLoop, LocalTermination, coverageVars
<1>3. RunsAt' = <<>>
  BY <1>2 DEF RunsAt
<1>4. \/ timedOut \/ CoverageMet \/ (phase = "run" /\ cycle >= CycleBound)
  BY DEF RunLoop, LocalTermination, TerminationCriteriaMet, LocalTerminationCriteriaMet
<1>5. Abstract!MayStop(before)
  <2>1. CASE timedOut
    BY <2>1 DEF Abstract!MayStop
  <2>2. CASE CoverageMet
    <3>1. Branches(P) \subseteq branches
      BY <2>2, CoverageMetIsFull DEF RefinementInv
    <3> QED BY <3>1, SameWorlds DEF Abstract!MayStop, P
  <2>3. CASE phase = "run" /\ cycle >= CycleBound
    BY <1>1, <2>3, RunsAtBound DEF Abstract!MayStop
  <2> QED BY <1>4, <2>1, <2>2, <2>3
<1>6. Abstract!Stop(before, <<>>)
  BY <1>2, <1>5 DEF Abstract!Stop
<1> QED BY <1>1, <1>3, <1>6 DEF Abstract!Next

-----------------------------------------------------------------------------
(* The run of a call, with the recursive definition of AfterCall made      *)
(* explicit.                                                               *)

(* The step after j, for as long as the call of k has not returned.        *)
NextInCall(w, k, j) ==
  IF Len(j.stack) <= Len(k.stack) THEN j ELSE ConcreteStep(P, w, j)

(* The body of AfterCall's recursion, up to step n.                        *)
CallFrom(w, k, n, call) ==
  [i \in 0 .. n |-> IF i = 0 THEN ConcreteStep(P, w, k) ELSE NextInCall(w, k, call[i - 1])]

(* There are runs of a call of any number of steps.                        *)
LEMMA CallExists ==
  ASSUME NEW w, NEW k, NEW n \in Nat
  PROVE  \E call : call = CallFrom(w, k, n, call)
<1> DEFINE None == {m \in Nat : ~ \E call : call = CallFrom(w, k, m, call)}
           start == ConcreteStep(P, w, k)
<1> SUFFICES ASSUME None # {} PROVE FALSE
  OBVIOUS
<1> HIDE DEF start
<1>1. PICK m \in None : \A j \in None : ~(j < m)
  <2>1. None \in SUBSET Nat
    OBVIOUS
  <2> HIDE DEF None
  <2> QED BY <2>1, LeastNumber
<1>2. m # 0
  <2> DEFINE call0 == [i \in 0 .. 0 |-> start]
  <2>1. CallFrom(w, k, 0, call0) = call0
    BY DEF CallFrom, start
  <2> QED BY <2>1
<1>3. m - 1 \in Nat /\ m - 1 < m /\ m \in Nat
  BY <1>2
<1>4. PICK call : call = CallFrom(w, k, m - 1, call)
  BY <1>1, <1>3
<1> DEFINE longer == [i \in 0 .. m |-> IF i = 0 THEN start ELSE NextInCall(w, k, call[i - 1])]
<1>5. \A i \in 0 .. m - 1 : longer[i] = call[i]
  <2>1. \A i \in 0 .. m - 1 : call[i] = IF i = 0 THEN start ELSE NextInCall(w, k, call[i - 1])
    BY <1>4 DEF CallFrom, start
  <2>2. \A i \in 0 .. m - 1 : i \in 0 .. m
    BY <1>3
  <2> QED BY <2>1, <2>2
<1>6. \A i \in 0 .. m : i = 0 \/ i - 1 \in 0 .. m - 1
  BY <1>3
<1>7. longer = CallFrom(w, k, m, longer)
  <2>1. longer = [i \in 0 .. m |-> longer[i]]
    OBVIOUS
  <2>2. \A i \in 0 .. m : longer[i] = IF i = 0 THEN start ELSE NextInCall(w, k, longer[i - 1])
    BY <1>5, <1>6
  <2>3. CallFrom(w, k, m, longer) =
          [i \in 0 .. m |-> IF i = 0 THEN start ELSE NextInCall(w, k, longer[i - 1])]
    BY DEF CallFrom, start
  <2> HIDE DEF longer
  <2> QED BY <2>1, <2>2, <2>3
<1> HIDE DEF longer
<1> QED BY <1>1, <1>7

(* AfterCall takes the steps of the call one after the other.              *)
LEMMA CallSteps ==
  ASSUME NEW w, NEW k
  PROVE  \E call : /\ Abstract!AfterCall(w, k) = call[MaxSteps]
                   /\ call[0] = ConcreteStep(P, w, k)
                   /\ \A i \in 0 .. MaxSteps : i # 0 => call[i] = NextInCall(w, k, call[i - 1])
<1> DEFINE Step(j) == Abstract!ConcreteStep(Code[prog], w, j)
           From(call) == [i \in 0 .. MaxSteps |->
                            IF i = 0 THEN Step(k)
                            ELSE LET j == call[i - 1]
                                 IN  IF Len(j.stack) <= Len(k.stack) THEN j ELSE Step(j)]
<1>1. PICK call : call = CHOOSE f : f = From(f)
  OBVIOUS
<1>2. Abstract!AfterCall(w, k) = call[MaxSteps]
  BY <1>1, Zenon DEF Abstract!AfterCall
<1>3. \A f : From(f) = CallFrom(w, k, MaxSteps, f)
  BY SameRuns DEF CallFrom, NextInCall, P
<1>4. call = CallFrom(w, k, MaxSteps, call)
  <2>1. PICK f : f = CallFrom(w, k, MaxSteps, f)
    BY CallExists, MaxStepsAssumption
  <2> HIDE DEF From
  <2>2. f = From(f)
    BY <1>3, <2>1
  <2>3. call = From(call)
    BY <1>1, <2>2
  <2> QED BY <1>3, <2>3
<1>5. 0 \in 0 .. MaxSteps
  BY MaxStepsAssumption
<1> HIDE DEF From
<1>6. /\ call[0] = ConcreteStep(P, w, k)
      /\ \A i \in 0 .. MaxSteps : i # 0 => call[i] = NextInCall(w, k, call[i - 1])
  BY <1>4, <1>5 DEF CallFrom
<1> QED BY <1>2, <1>6

(* What a step of a run does to the frames on its stack.                   *)
KeepsFrames(k, next) == next.stack = k.stack

(* A call pushes a frame.                                                  *)
PushesFrame(k, next) == \E f : next.stack = Append(k.stack, f)

(* An exit pops one and goes to where it returns to.                       *)
PopsFrame(k, next) ==
  /\ next.stack = SubSeq(k.stack, 1, Depth(k) - 1)
  /\ next.label = ReturnLabel(k)

(* Within a function block a step does one of these.  Only the exit of the *)
(* program, where there is but one frame, leads to the next cycle.         *)
LEMMA FramesOfStep ==
  ASSUME NEW q \in Programs, NEW p, p = Code[q], NEW w, NEW k, RunOK(p, k), Depth(k) > 1,
         NEW next, next = ConcreteStep(p, w, k)
  PROVE  /\ next.cycle = k.cycle
         /\ KeepsFrames(k, next) \/ PushesFrame(k, next) \/ PopsFrame(k, next)
<1> PICK g : g = CfgOf(p, Scope(k))
  OBVIOUS
<1> PICK v : v = g.vertices[k.label]
  OBVIOUS
<1>1. /\ g.type = "FUNCTION_BLOCK"
      /\ v.type \in {"ENTRY", "REGULAR", "EXIT"} /\ (v.type # "REGULAR" => v.op = "none")
      /\ v.op \in {"none", "assign", "havoc", "if", "call"}
  BY RunVertex
<1>2. StepAt(p, w, k, g, v)
  BY <1>1, ConcreteSteps
<1>3. k = [cycle |-> k.cycle, label |-> k.label, stack |-> k.stack, env |-> k.env, taken |-> k.taken]
  BY DEF RunOK
<1>4. CASE v.type = "ENTRY" \/ (v.type = "REGULAR" /\ v.op = "none")
  BY <1>2, <1>3, <1>4 DEF StepAt, Passed, KeepsFrames
<1>5. CASE v.type = "EXIT"
  BY <1>1, <1>2, <1>3, <1>5 DEF StepAt, Returned, Depth, PopsFrame
<1>6. CASE v.op = "assign" \/ v.op = "havoc"
  BY <1>2, <1>3, <1>6 DEF StepAt, Written, KeepsFrames
<1>7. CASE v.op = "if"
  BY <1>2, <1>3, <1>7 DEF StepAt, Branched, KeepsFrames
<1>8. CASE v.op = "call"
  BY <1>2, <1>3, <1>8 DEF StepAt, Called, PushesFrame
<1> QED BY <1>1, <1>4, <1>5, <1>6, <1>7, <1>8

(* The stack t has been grown from s, starting with the frame f.           *)
Above(s, f, t) ==
  /\ Len(t) > Len(s)
  /\ \A i \in 1 .. Len(s) : t[i] = s[i]
  /\ t[Len(s) + 1] = f

(* The stack stays grown when it is pushed.                                *)
LEMMA AbovePushed ==
  ASSUME NEW F, NEW s \in Seq(F), NEW t \in Seq(F), NEW f, Above(s, f, t), NEW e
  PROVE  Above(s, f, Append(t, e))
<1>1. PICK E : E = F \cup {e}
  OBVIOUS
<1>2. t \in Seq(E) /\ e \in E
  BY <1>1
<1>3. PICK u : u = Append(t, e)
  OBVIOUS
<1>4. Len(u) = Len(t) + 1 /\ \A i \in 1 .. Len(t) : u[i] = t[i]
  BY <1>2, <1>3
<1>5. Len(s) \in Nat /\ Len(t) \in Nat
  OBVIOUS
<1> QED BY <1>3, <1>4, <1>5 DEF Above

(* When it is popped it stays grown, or is back to what it was.            *)
LEMMA AbovePopped ==
  ASSUME NEW F, NEW s \in Seq(F), NEW t \in Seq(F), NEW f, Above(s, f, t),
         NEW u, u = SubSeq(t, 1, Len(t) - 1)
  PROVE  Above(s, f, u) \/ (u = s /\ t[Len(t)] = f)
<1>1. PICK n, m : n = Len(s) /\ m = Len(t)
  OBVIOUS
<1>2. /\ n \in Nat /\ m \in Nat /\ m > n
      /\ \A i \in 1 .. n : t[i] = s[i]
      /\ t[n + 1] = f
  BY <1>1 DEF Above
<1>3. /\ u \in Seq(F) /\ Len(u) = m - 1
      /\ \A i \in 1 .. m - 1 : u[i] = t[i]
  BY <1>1, <1>2
<1>4. CASE m = n + 1
  <2>1. u = s
    BY <1>1, <1>2, <1>3, <1>4
  <2> QED BY <1>1, <1>2, <1>4, <2>1
<1>5. CASE m > n + 1
  BY <1>1, <1>2, <1>3, <1>5 DEF Above
<1> QED BY <1>2, <1>4, <1>5

(* It starts to grow with a push.                                          *)
LEMMA AboveOwn ==
  ASSUME NEW F, NEW s \in Seq(F), NEW f
  PROVE  Above(s, f, Append(s, f))
<1>1. PICK E : E = F \cup {f}
  OBVIOUS
<1>2. s \in Seq(E) /\ f \in E
  BY <1>1
<1>3. PICK u : u = Append(s, f)
  OBVIOUS
<1>4. Len(u) = Len(s) + 1 /\ (\A i \in 1 .. Len(s) : u[i] = s[i]) /\ u[Len(s) + 1] = f
  BY <1>2, <1>3
<1>5. Len(s) \in Nat
  OBVIOUS
<1> QED BY <1>3, <1>4, <1>5 DEF Above

(* The run is at x within the call that put the frame f onto those of k.   *)
InCall(k, f, x) == x.cycle = k.cycle /\ Above(k.stack, f, x.stack)

(* The call has returned.                                                  *)
HasReturned(k, f, x) == x.cycle = k.cycle /\ x.stack = k.stack /\ x.label = f.ret

(* Stacks are sequences of frames.                                         *)
LEMMA StackIsSeq ==
  ASSUME NEW p, NEW k, RunOK(p, k)
  PROVE  k.stack \in Seq([scope : DOMAIN p.scopes, ret : Nat]) /\ k.stack # <<>>
BY DEF RunOK, StackOK

(* A step within a call stays in it or returns from it.                    *)
LEMMA CallGoesOn ==
  ASSUME NEW q \in Programs, NEW p, p = Code[q], NEW w, NEW k, RunOK(p, k),
         NEW f, NEW x, RunOK(p, x), InCall(k, f, x),
         NEW next, next = ConcreteStep(p, w, x)
  PROVE  InCall(k, f, next) \/ HasReturned(k, f, next)
<1>1. PICK s, t, u, F : /\ s = k.stack /\ t = x.stack /\ u = next.stack
                        /\ F = [scope : DOMAIN p.scopes, ret : Nat]
  OBVIOUS
<1>2. s \in Seq(F) /\ t \in Seq(F) /\ s # <<>>
  BY <1>1, StackIsSeq
<1>3. Above(s, f, t) /\ x.cycle = k.cycle
  BY <1>1 DEF InCall
<1>4. Depth(x) > 1
  <2>1. Depth(x) = Len(t)
    BY <1>1 DEF Depth
  <2>2. Len(t) > Len(s) /\ Len(s) \in Nat /\ Len(s) # 0 /\ Len(t) \in Nat
    BY <1>2, <1>3 DEF Above
  <2> QED BY <2>1, <2>2
<1>5. /\ next.cycle = x.cycle
      /\ KeepsFrames(x, next) \/ PushesFrame(x, next) \/ PopsFrame(x, next)
  BY <1>4, FramesOfStep
<1>6. CASE u = t
  BY <1>1, <1>3, <1>5, <1>6 DEF InCall
<1>7. ASSUME NEW e, u = Append(t, e)
      PROVE  InCall(k, f, next)
  <2>1. Above(s, f, u)
    BY <1>2, <1>3, <1>7, AbovePushed
  <2> QED BY <1>1, <1>3, <1>5, <2>1 DEF InCall
<1>8. CASE u = SubSeq(t, 1, Len(t) - 1) /\ next.label = t[Len(t)].ret
  <2>1. Above(s, f, u) \/ (u = s /\ t[Len(t)] = f)
    BY <1>2, <1>3, <1>8, AbovePopped
  <2> QED BY <1>1, <1>3, <1>5, <1>8, <2>1 DEF InCall, HasReturned
<1> QED BY <1>1, <1>5, <1>6, <1>7, <1>8 DEF KeepsFrames, PushesFrame, PopsFrame, Depth, ReturnLabel

(* The call of a run starts with the frame that it pushes.                 *)
LEMMA CallStarts ==
  ASSUME NEW q \in Programs, NEW p, p = Code[q], NEW w, NEW k, RunOK(p, k),
         NEW g, g = CfgOf(p, Scope(k)), g.vertices[k.label].op = "call",
         NEW next, next = ConcreteStep(p, w, k)
  PROVE  \E f : f.ret = Target(g, k.label, "CALL_TO_RETURN") /\ InCall(k, f, next)
<1>1. PICK v : v = g.vertices[k.label]
  OBVIOUS
<1>2. v.type \in {"ENTRY", "REGULAR", "EXIT"} /\ (v.type # "REGULAR" => v.op = "none")
  BY <1>1, RunVertex
<1>3. StepAt(p, w, k, g, v)
  BY <1>1, <1>2, ConcreteSteps
<1>4. k = [cycle |-> k.cycle, label |-> k.label, stack |-> k.stack, env |-> k.env, taken |-> k.taken]
  BY DEF RunOK
<1>5. PICK f : f = [scope |-> Append(Scope(k), v.instance),
                    ret |-> Target(g, k.label, "CALL_TO_RETURN")]
  OBVIOUS
<1>6. next.cycle = k.cycle /\ next.stack = Append(k.stack, f)
  BY <1>1, <1>3, <1>4, <1>5 DEF StepAt, Called
<1>7. PICK s, G : s = k.stack /\ G = [scope : DOMAIN p.scopes, ret : Nat]
  OBVIOUS
<1>8. s \in Seq(G)
  BY <1>7, StackIsSeq
<1>9. Above(s, f, Append(s, f))
  BY <1>8, AboveOwn
<1>10. InCall(k, f, next)
  BY <1>6, <1>7, <1>9 DEF InCall
<1> QED BY <1>5, <1>10

(* The run at is followed through the call that it is at after i steps: in *)
(* n steps it has gone on within the call, or returned from it.            *)
GoesOn(at, i, k, f, call, n) ==
  /\ i + 1 + n \in 0 .. MaxSteps
  /\ call[n] = at[i + 1 + n]
  /\ InCall(k, f, call[n])

(* Or it has returned to a configuration of the run.                       *)
Returns(at, k, f, call, n) ==
  /\ \E m \in 0 .. MaxSteps : call[n] = at[m]
  /\ HasReturned(k, f, call[n])

(* The run has returned from the call before its steps are used up.        *)
LEMMA CallFollowed ==
  ASSUME prog \in Programs, NEW w \in Worlds(P), NEW at, at = RunAfter(P, w),
         NEW i \in 0 .. MaxSteps, NEW k, k = at[i], k.cycle # CycleBound,
         NEW f, InCall(k, f, ConcreteStep(P, w, k)),
         NEW call, call[0] = ConcreteStep(P, w, k),
         \A n \in 0 .. MaxSteps : n # 0 => call[n] = NextInCall(w, k, call[n - 1])
  PROVE  Returns(at, k, f, call, MaxSteps)
<1>1. MaxSteps \in Nat /\ 0 \in 0 .. MaxSteps /\ MaxSteps \in 0 .. MaxSteps
  BY MaxStepsAssumption
<1>2. /\ \A m \in 0 .. MaxSteps : RunOK(P, at[m])
      /\ \A m \in 0 .. MaxSteps : m + 1 \in 0 .. MaxSteps => at[m + 1] = NextInRun(P, w, at[m])
  BY RunIsOK DEF P
<1>3. ASSUME NEW m \in 0 .. MaxSteps, at[m].cycle # CycleBound
      PROVE  m + 1 \in 0 .. MaxSteps /\ at[m + 1] = ConcreteStep(P, w, at[m])
  <2>1. at[MaxSteps].cycle = CycleBound
    BY RunsAssumption DEF P
  <2>2. m + 1 \in 0 .. MaxSteps
    BY <1>1, <1>3, <2>1
  <2> QED BY <1>2, <1>3, <2>2 DEF NextInRun
<1>4. Len(k.stack) \in Nat
  <2>1. RunOK(P, k)
    BY <1>2
  <2>2. PICK G : G = [scope : DOMAIN P.scopes, ret : Nat]
    OBVIOUS
  <2>3. k.stack \in Seq(G)
    BY <2>1, <2>2, StackIsSeq
  <2> QED BY <2>3
<1> DEFINE S == {n \in 0 .. MaxSteps : GoesOn(at, i, k, f, call, n) \/ Returns(at, k, f, call, n)}
<1>5. 0 \in S
  <2>1. i + 1 \in 0 .. MaxSteps /\ at[i + 1] = ConcreteStep(P, w, k)
    BY <1>3
  <2>2. i + 1 + 0 = i + 1
    OBVIOUS
  <2> QED BY <1>1, <2>1, <2>2 DEF GoesOn
<1>6. ASSUME NEW n \in 0 .. MaxSteps, n \in S, n + 1 \in 0 .. MaxSteps
      PROVE  n + 1 \in S
  <2>1. call[n + 1] = NextInCall(w, k, call[n])
    BY <1>6
  <2>2. CASE GoesOn(at, i, k, f, call, n)
    <3>1. PICK m \in 0 .. MaxSteps : m = i + 1 + n
      BY <2>2 DEF GoesOn
    <3>2. call[n] = at[m] /\ InCall(k, f, at[m])
      BY <2>2, <3>1 DEF GoesOn
    <3>3. at[m].cycle # CycleBound /\ Len(at[m].stack) > Len(k.stack)
      BY <3>2 DEF InCall, Above
    <3>4. m + 1 \in 0 .. MaxSteps /\ at[m + 1] = ConcreteStep(P, w, at[m])
      BY <1>3, <3>3
    <3>5. Len(at[m].stack) \in Nat
      <4>1. RunOK(P, at[m])
        BY <1>2
      <4>2. PICK G : G = [scope : DOMAIN P.scopes, ret : Nat]
        OBVIOUS
      <4>3. at[m].stack \in Seq(G)
        BY <4>1, <4>2, StackIsSeq
      <4> QED BY <4>3
    <3>6. call[n + 1] = at[m + 1]
      BY <1>4, <2>1, <3>2, <3>3, <3>4, <3>5 DEF NextInCall
    <3>7. RunOK(P, k) /\ RunOK(P, at[m])
      BY <1>2
    <3>8. InCall(k, f, at[m + 1]) \/ HasReturned(k, f, at[m + 1])
      BY <3>2, <3>4, <3>7, CallGoesOn DEF P
    <3>9. i + 1 + (n + 1) = m + 1
      BY <3>1
    <3> QED BY <1>6, <3>4, <3>6, <3>8, <3>9 DEF GoesOn, Returns
  <2>3. CASE Returns(at, k, f, call, n)
    <3>1. call[n].stack = k.stack
      BY <2>3 DEF Returns, HasReturned
    <3>2. call[n + 1] = call[n]
      BY <1>4, <2>1, <3>1 DEF NextInCall
    <3> QED BY <1>6, <2>3, <3>2 DEF Returns
  <2> QED BY <1>6, <2>2, <2>3
<1>7. 0 .. MaxSteps \subseteq S
  <2> HIDE DEF S
  <2> QED BY <1>1, <1>5, <1>6, StepByStep
<1>8. ~GoesOn(at, i, k, f, call, MaxSteps)
  BY <1>1 DEF GoesOn
<1> QED BY <1>1, <1>7, <1>8

(* Past the call, the run is on the trace where the call returns to.       *)
LEMMA AfterCallReturns ==
  ASSUME prog \in Programs, NEW w \in Worlds(P), NEW pos \in DOMAIN Trace[prog][w],
         NEW k, k = Trace[prog][w][pos], k.cycle # CycleBound,
         NEW g, g = CfgOf(P, Scope(k)), g.vertices[k.label].op = "call",
         NEW back, back = <<k.cycle, Target(g, k.label, "CALL_TO_RETURN"), k.stack>>
  PROVE  Abstract!AfterCall(w, k) = Trace[prog][w][back]
<1>1. PICK at : at = RunAfter(P, w)
  OBVIOUS
<1>2. PICK i \in 0 .. MaxSteps : k = at[i]
  BY <1>1, OnTraceInRun DEF P
<1>3. RunOK(P, k)
  BY <1>1, <1>2, RunIsOK DEF P
<1>4. PICK f : /\ f.ret = Target(g, k.label, "CALL_TO_RETURN")
               /\ InCall(k, f, ConcreteStep(P, w, k))
  BY <1>3, CallStarts DEF P
<1>5. PICK call : /\ Abstract!AfterCall(w, k) = call[MaxSteps]
                  /\ call[0] = ConcreteStep(P, w, k)
                  /\ \A n \in 0 .. MaxSteps : n # 0 => call[n] = NextInCall(w, k, call[n - 1])
  BY CallSteps
<1>6. Returns(at, k, f, call, MaxSteps)
  BY <1>1, <1>2, <1>4, <1>5, CallFollowed
<1>7. PICK m \in 0 .. MaxSteps : call[MaxSteps] = at[m]
  BY <1>6 DEF Returns
<1>8. Position(at[m]) = back
  BY <1>4, <1>6, <1>7 DEF Returns, HasReturned, Position
<1>9. Trace[prog][w][Position(at[m])] = at[m]
  BY <1>1, RunOnTrace DEF P
<1> QED BY <1>5, <1>7, <1>8, <1>9

-----------------------------------------------------------------------------
(* A summary moves the runs that it applies to past the call.              *)

(* What is newly covered along a summary has been taken by its runs.       *)
LEMMA SummaryReports ==
  ASSUME RefinementInv, phase = "summarize", NEW k, NEW c, NEW a, NEW d, AppliesSummary(c, k, a, d)
  PROVE  /\ branches \subseteq branches'
         /\ \/ branches' = branches
            \/ \E w \in PathWorlds(P, d) : branches' \subseteq branches \cup TakenAt(d, w)
<1>1. RunsInv /\ prog \in CoveredPrograms
  BY DEF RefinementInv, CoverageInv
<1>2. /\ c = held[1] /\ k \in DOMAIN SummariesAt(P, c)
      /\ d.stack = Caller(c).stack /\ d.label = ReturnLabel(c) /\ d.cycle = c.cycle
      /\ PathWorlds(P, d) = PathWorlds(P, a)
      /\ \A w : w \in PathWorlds(P, d) <=> w \in PathWorlds(P, c) /\ Applies(c, w, k)
  BY DEF AppliesSummary
<1>3. PICK new : /\ new = NewAlong(c, k) /\ branches' = branches \cup new
                 /\ IF new \subseteq branches THEN UNCHANGED testSuite ELSE DeriveTestCase(a)
  BY DEF AppliesSummary
<1>4. PICK s : s = SummariesAt(P, c)[k]
  OBVIOUS
<1>5. new = BranchesAlong(CfgOf(P, Scope(c)), s.literals)
  <2>1. P.scopes[Scope(c)] \in DOMAIN P.summaries
    BY <1>2 DEF SummariesAt
  <2>2. s \in RangeOf(P.summaries[P.scopes[Scope(c)]])
    BY <1>2, <1>4, <2>1 DEF SummariesAt, RangeOf
  <2>3. Scope(c) \in DOMAIN P.scopes
    BY <1>1, <1>2, WaitingContext
  <2>4. StartsAtEntry(CfgOf(P, Scope(c)), s)
    BY <1>1, <2>1, <2>2, <2>3 DEF CoveredPrograms, P
  <2>5. PICK g, path : g = CfgOf(P, Scope(c)) /\ path = LabelsAlong(c, k)
    OBVIOUS
  <2>6. TakenAlong(g, path, Len(s.literals)) = BranchesAlong(g, s.literals)
    <3>1. StartsAtEntry(g, s) /\ path = <<covered>> \o s.literals
      BY <1>4, <2>4, <2>5 DEF LabelsAlong
    <3> QED BY <3>1, PathTaken
  <2> QED BY <1>3, <1>4, <2>5, <2>6 DEF NewAlong
<1>6. ASSUME NEW w \in PathWorlds(P, d)
      PROVE  new \subseteq TakenAt(d, w)
  <2>1. w \in PathWorlds(P, c) /\ Applies(c, w, k)
    BY <1>2
  <2>2. PICK caller : caller = Caller(c)
    OBVIOUS
  <2>3. d.cycle = c.cycle /\ d.label = ReturnLabel(c) /\ d.stack = caller.stack
    BY <1>2, <2>2
  <2>4. TakenAt(d, w) = TakenAt(caller, w) \cup BranchesAlong(CfgOf(P, Scope(c)), s.literals)
    BY <1>1, <1>2, <1>4, <2>1, <2>2, <2>3, SummaryTaken
  <2> QED BY <1>5, <2>4
<1>7. CASE new \subseteq branches
  BY <1>3, <1>7
<1>8. CASE ~(new \subseteq branches)
  <2>1. PICK w \in PathWorlds(P, a) : TRUE
    BY <1>3, <1>8 DEF DeriveTestCase
  <2> QED BY <1>2, <1>3, <1>6, <2>1
<1> QED BY <1>7, <1>8

(* Where the context with the share of a world comes from.                 *)
LEMMA ShareAfterSummary ==
  ASSUME RefinementInv, phase = "summarize", prog' = prog,
         UNCHANGED <<explorer, merger, succeeding>>,
         NEW k \in todo, NEW c, NEW a, NEW d, AppliesSummary(c, k, a, d),
         NEW w, NEW here \in Places', w \in Share(here)'
  PROVE  \/ \E b \in Places : w \in Share(b) /\ StandsFor(here)' = StandsFor(b)
         \/ w \in PathWorlds(P, d) /\ StandsFor(here)' = d
<1>1. RunsInv /\ IsSeq(pending) /\ P' = P
  BY DEF RefinementInv, CoverageInv, RunsInv, Inv, ControlInv, EngineOK, P
<1>2. /\ c = held[1] /\ pending' = Append(pending, d) /\ todo' = todo \ {k}
      /\ phase' = IF todo = {k} THEN "dispatch" ELSE phase
      /\ held' = IF todo = {k} THEN <<>> ELSE held
  BY DEF AppliesSummary
<1>3. /\ Len(pending) \in Nat /\ DOMAIN pending = 1 .. Len(pending)
      /\ DOMAIN pending' = 1 .. Len(pending) + 1
      /\ pending'[Len(pending) + 1] = d
      /\ \A i \in 1 .. Len(pending) : pending'[i] = pending[i]
  BY <1>1, <1>2 DEF IsSeq
<1>4. ASSUME here \in Places, ContextAt(here)' = ContextAt(here), here[1] # "held"
      PROVE  \E b \in Places : w \in Share(b) /\ StandsFor(here)' = StandsFor(b)
  <2>1. w \in PathWorlds(P, ContextAt(here)) /\ StandsFor(here)' = ContextAt(here)
    BY <1>4, NextPlainPlace
  <2>2. w \in Share(here) /\ StandsFor(here) = ContextAt(here)
    BY <1>4, <2>1, PlainPlace
  <2> QED BY <1>4, <2>1, <2>2
<1>5. CASE \E e \in explorer' : here = <<"explorer", e, 0>>
  <2>1. PICK e \in explorer : here = <<"explorer", e, 0>>
    BY <1>5
  <2>2. here \in Places /\ ContextAt(here)' = ContextAt(here) /\ here[1] # "held"
    BY <2>1, PlaceForms, ContextForms, NextPlaces
  <2> QED BY <1>4, <2>2
<1>6. CASE \E e \in succeeding' : here = <<"succeeding", e, 0>>
  <2>1. PICK e \in succeeding : here = <<"succeeding", e, 0>>
    BY <1>6
  <2>2. here \in Places /\ ContextAt(here)' = ContextAt(here) /\ here[1] # "held"
    BY <2>1, PlaceForms, ContextForms, NextPlaces
  <2> QED BY <1>4, <2>2
<1>7. CASE \E m \in DOMAIN merger' : \E i \in DOMAIN (merger'[m]) : here = <<"merger", m, i>>
  <2>1. PICK m \in DOMAIN merger : \E i \in DOMAIN merger[m] : here = <<"merger", m, i>>
    BY <1>7
  <2>2. PICK i \in DOMAIN merger[m] : here = <<"merger", m, i>>
    BY <2>1
  <2>3. here \in Places /\ here[1] # "held"
    BY <2>1, <2>2, PlaceForms
  <2>4. ContextAt(here) = merger[m][i] /\ ContextAt(here)' = merger'[m][i]
    BY <2>2, ContextForms, NextPlaces
  <2> QED BY <1>4, <2>3, <2>4
<1>8. CASE \E i \in DOMAIN held' : here = <<"held", 0, i>>
  <2>1. todo # {k} /\ held' = held /\ phase' = "summarize"
    BY <1>2, <1>8
  <2>2. PICK i \in DOMAIN held : here = <<"held", 0, i>>
    BY <1>8, <2>1
  <2>3. here \in Places /\ here[1] = "held" /\ ContextAt(here) = held[i] /\ ContextAt(here)' = held[i]
    BY <2>1, <2>2, PlaceForms, ContextForms, NextPlaces
  <2>4. StandsFor(here)' = StandsFor(here)
    BY <2>1, <2>3 DEF StandsFor, Caller
  <2>5. w \in Share(here)
    <3>1. w \in SharesApplied(P, ContextAt(here), todo')
      BY <1>1, <2>1, <2>3, NextHeldShare
    <3>2. w \in SharesApplied(P, ContextAt(here), todo)
      BY <1>2, <3>1 DEF SharesApplied
    <3> QED BY <2>3, <3>2, HeldShare
  <2> QED BY <2>3, <2>4, <2>5
<1>9. CASE \E i \in DOMAIN pending' : here = <<"pending", 0, i>>
  <2>1. PICK i \in DOMAIN pending' : here = <<"pending", 0, i>>
    BY <1>9
  <2>2. here[1] # "held" /\ ContextAt(here)' = pending'[i]
    BY <2>1, NextPlaces
  <2>3. CASE i \in DOMAIN pending
    <3>1. here \in Places /\ ContextAt(here)' = ContextAt(here)
      BY <1>3, <2>1, <2>2, <2>3, PlaceForms, ContextForms
    <3> QED BY <1>4, <2>2, <3>1
  <2>4. CASE i = Len(pending) + 1
    <3>1. ContextAt(here)' = d
      BY <1>3, <2>2, <2>4
    <3> QED BY <2>2, <3>1, NextPlainPlace
  <2> QED BY <1>3, <2>1, <2>3, <2>4
<1> QED BY <1>5, <1>6, <1>7, <1>8, <1>9, NextPlaces

(* A run that a summary applies to stands at the call, and where the call  *)
(* has returned once it has been applied.                                  *)
LEMMA SummaryFollowed ==
  ASSUME RefinementInv, phase = "summarize", NEW c, c = held[1], NEW caller, caller = Caller(c),
         NEW w \in PathWorlds(P, c), NEW d,
         d.stack = caller.stack, d.label = ReturnLabel(c), d.cycle = c.cycle,
         NEW q, q = Trace[prog][w][Position(caller)]
  PROVE  /\ Position(q) = Position(caller)
         /\ ~Abstract!AtProgramExit(q)
         /\ Trace[prog][w][Position(d)] \in Abstract!Following(w, q)
<1>1. RunsInv /\ cycle < CycleBound /\ cycle \in Nat /\ CycleBound \in Nat /\ c.cycle = cycle
  <2>1. RunsInv /\ cycle < CycleBound
    BY DEF RefinementInv, CoverageInv, RunsInv, Inv, ControlInv, EngineOK
  <2>2. DOMAIN held = {1}
    BY <2>1, WaitingContext
  <2>3. c.cycle = cycle
    BY <2>1, <2>2 DEF RunsInv, Inv, ControlInv, CyclesOK, RangeOf
  <2>4. cycle \in Nat /\ CycleBound \in Nat
    BY <2>1, CycleBoundAssumption DEF RunsInv, Inv, ControlInv, EngineOK
  <2> QED BY <2>1, <2>3, <2>4
<1>2. /\ CallsInto(caller, c) /\ w \in Worlds(P) /\ Follows(caller, w) /\ prog \in Programs
  BY <1>1, WaitingContext DEF RunsInv, Inv, ControlInv, EngineOK
<1>3. PICK j : /\ OnTrace(w, j) /\ Matches(caller, w, j) /\ RunOK(P, j) /\ Position(j) = Position(caller)
  BY <1>1, <1>2, FollowedConfiguration
<1>4. PICK pos : pos = Position(caller)
  OBVIOUS
<1>5. pos \in DOMAIN Trace[prog][w] /\ Trace[prog][w][pos] = q /\ q = j
  BY <1>3, <1>4 DEF OnTrace
<1>6. /\ Scope(q) = Scope(caller) /\ q.label = caller.label /\ q.stack = caller.stack
      /\ q.cycle = caller.cycle /\ caller.cycle = c.cycle
  BY <1>2, <1>3, <1>5 DEF Matches, CallsInto, Scope
<1>7. PICK g : g = CfgOf(P, Scope(q))
  OBVIOUS
<1>8. g.vertices[q.label].op = "call"
  BY <1>2, <1>6, <1>7 DEF CallsInto, Vertex
<1>9. /\ WellFormed(P) /\ WellFormedVertex(P, Scope(q), q.label)
      /\ g.vertices[q.label].type = "REGULAR"
  BY <1>2, <1>3, <1>5, <1>7, <1>8, RunVertex DEF P
<1>10. ~Abstract!AtProgramExit(q)
  <2> SUFFICES ASSUME Len(q.stack) = 1, q.label = MainCfg(P).exit
               PROVE  FALSE
    BY SameProgram DEF Abstract!AtProgramExit, P
  <2>1. StackOK(P, q.stack)
    BY <1>3, <1>5 DEF RunOK
  <2>2. Scope(q) = MainScope(P)
    BY <1>9, <2>1, FramesOfStack DEF Depth
  <2>3. q.label = g.exit
    BY <1>7, <2>2 DEF MainCfg
  <2> QED BY <1>7, <1>9, <2>3 DEF WellFormedVertex
<1>11. Abstract!AtCall(q)
  BY <1>7, <1>8, <1>9, SameProgram, SameRuns DEF Abstract!AtCall, P
<1>12. Position(d) = <<q.cycle, Target(g, q.label, "CALL_TO_RETURN"), q.stack>>
  <2>1. ReturnLabel(c) = Target(CfgOf(P, Scope(caller)), caller.label, "CALL_TO_RETURN")
    BY <1>2, FrameOfCall
  <2> QED BY <1>6, <1>7, <2>1 DEF Position
<1>13. Abstract!AfterCall(w, q) = Trace[prog][w][Position(d)]
  <2>1. q.cycle # CycleBound
    BY <1>1, <1>6
  <2> QED BY <1>2, <1>5, <1>7, <1>8, <1>12, <2>1, AfterCallReturns
<1>14. Trace[prog][w][Position(d)] \in Abstract!Following(w, q)
  BY <1>11, <1>13 DEF Abstract!Following
<1> QED BY <1>3, <1>5, <1>10, <1>14

(* Applying a summary moves the runs that it applies to past the call, all *)
(* others rest.                                                            *)
LEMMA ApplyNextSummaryAdvances ==
  ASSUME RefinementInv, RefinementInv', ApplyNextSummary
  PROVE  Abstract!Next
<1>1. RunsInv /\ RunsInv'
  BY DEF RefinementInv, CoverageInv
<1>2. /\ phase = "summarize" /\ prog' = prog /\ P' = P
      /\ UNCHANGED <<explorer, merger, succeeding, timedOut>>
      /\ \E k \in todo : \E c, a, d : AppliesSummary(c, k, a, d)
  BY <1>1, SummaryIsApplied DEF P
<1>3. PICK k, c, a, d : k \in todo /\ AppliesSummary(c, k, a, d)
  BY <1>2
<1>4. /\ c = held[1] /\ phase' # "done"
      /\ d.stack = Caller(c).stack /\ d.label = ReturnLabel(c) /\ d.cycle = c.cycle
      /\ \A w : w \in PathWorlds(P, d) <=> w \in PathWorlds(P, c) /\ Applies(c, w, k)
  BY <1>2, <1>3 DEF AppliesSummary
<1>5. PICK before, after, caller : before = RunsAt /\ after = RunsAt' /\ caller = Caller(c)
  OBVIOUS
<1>6. /\ DOMAIN before = Worlds(P)
      /\ \A w \in Worlds(P) : \A b \in Places :
           w \in Share(b) => before[w] = Trace[prog][w][Position(StandsFor(b))]
  BY <1>2, <1>5, RunsArePlaced DEF RunsAreAt
<1>7. /\ DOMAIN after = Worlds(P)
      /\ \A w \in Worlds(P) : \A b \in Places' :
           w \in Share(b)' => after[w] = Trace[prog][w][Position(StandsFor(b)')]
  BY <1>2, <1>4, <1>5, NextRunsArePlaced DEF RunsAreAt
<1>8. SharedOut(Worlds(P), Places', [b \in Places' |-> Share(b)'])
  BY <1>1, <1>2, <1>4 DEF RunsInv, WorldsAreSharedOut
<1>9. ASSUME NEW w \in PathWorlds(P, d)
      PROVE  /\ w \in Worlds(P)
             /\ Position(before[w]) = Position(caller)
             /\ ~Abstract!AtProgramExit(before[w])
             /\ Trace[prog][w][Position(d)] \in Abstract!Following(w, before[w])
  <2>1. w \in PathWorlds(P, c) /\ Applies(c, w, k)
    BY <1>4
  <2>2. PICK h : h = <<"held", 0, 1>>
    OBVIOUS
  <2>3. h \in Places /\ ContextAt(h) = c /\ h[1] = "held" /\ w \in Worlds(P)
    BY <1>1, <1>2, <1>4, <2>1, <2>2, WaitingContext
  <2>4. w \in Share(h)
    BY <1>2, <1>3, <2>1, <2>3, HeldShare DEF SharesApplied, Applies
  <2>5. StandsFor(h) = caller
    BY <1>2, <1>5, <2>3 DEF StandsFor
  <2>6. before[w] = Trace[prog][w][Position(caller)]
    BY <1>6, <2>3, <2>4, <2>5
  <2> QED BY <1>2, <1>4, <1>5, <2>1, <2>3, <2>6, SummaryFollowed
<1>10. ASSUME NEW w \in DOMAIN before
       PROVE  \/ after[w] = before[w]
              \/ /\ Position(before[w]) = Position(caller)
                 /\ ~Abstract!AtProgramExit(before[w])
                 /\ after[w] \in Abstract!Following(w, before[w])
  <2>1. PICK here \in Places' : w \in Share(here)'
    BY <1>6, <1>8 DEF SharedOut
  <2>2. PICK e : e = StandsFor(here)'
    OBVIOUS
  <2>3. after[w] = Trace[prog][w][Position(e)]
    BY <1>6, <1>7, <2>1, <2>2
  <2>4. CASE \E b \in Places : w \in Share(b) /\ e = StandsFor(b)
    BY <1>6, <2>3, <2>4
  <2>5. CASE w \in PathWorlds(P, d) /\ e = d
    BY <1>9, <2>3, <2>5
  <2> QED BY <1>2, <1>3, <2>1, <2>2, <2>4, <2>5, ShareAfterSummary
<1>11. Reports(after)
  <2>1. /\ branches \subseteq branches'
        /\ \/ branches' = branches
           \/ \E w \in PathWorlds(P, d) : branches' \subseteq branches \cup TakenAt(d, w)
    BY <1>2, <1>3, SummaryReports
  <2>2. ASSUME NEW w \in PathWorlds(P, d)
        PROVE  w \in DOMAIN after /\ after[w].taken = TakenAt(d, w)
    <3>1. \E here \in Places' : w \in Share(here)' /\ StandsFor(here)' = d
      <4>1. /\ IsSeq(pending) /\ pending' = Append(pending, d)
        BY <1>1, <1>3 DEF RunsInv, Inv, ControlInv, EngineOK, AppliesSummary
      <4>2. PICK i : i = Len(pending) + 1
        OBVIOUS
      <4>3. i \in DOMAIN pending' /\ pending'[i] = d
        BY <4>1, <4>2 DEF IsSeq
      <4>4. PICK here : here = <<"pending", 0, i>>
        OBVIOUS
      <4>5. here \in Places' /\ ContextAt(here)' = d /\ here[1] # "held"
        BY <4>3, <4>4, NextPlaces
      <4>6. StandsFor(here)' = d /\ Share(here)' = PathWorlds(P, d)
        BY <1>2, <4>5, NextPlainPlace
      <4> QED BY <2>2, <4>5, <4>6
    <3>2. after[w] = Trace[prog][w][Position(d)] /\ w \in DOMAIN after
      BY <1>7, <1>9, <2>2, <3>1
    <3> QED BY <3>2 DEF TakenAt
  <2> QED BY <2>1, <2>2 DEF Reports
<1> QED BY <1>2, <1>5, <1>6, <1>7, <1>10, <1>11, RunsAdvance

-----------------------------------------------------------------------------
(* The engine runs the program in every world at once.                     *)

(* The engine starts with all runs at their start.                         *)
LEMMA InitImplements ==
  ASSUME Init, RefinementInv
  PROVE  Abstract!Init
<1>1. /\ prog \in Programs /\ phase = "run" /\ explorer = {InitialContext(P)} /\ succeeding = {}
      /\ branches = {} /\ timedOut = FALSE
  BY DEF Init
<1>2. RunsInv
  BY DEF RefinementInv, CoverageInv
<1>3. PICK c : c = InitialContext(P)
  OBVIOUS
<1>4. RunsAt = [w \in Worlds(P) |-> RunsAt[w]]
  BY <1>1, RunsArePlaced DEF RunsAreAt
<1>5. ASSUME NEW w \in Worlds(P)
      PROVE  RunsAt[w] = InitialConfiguration(P, w)
  <2>1. PICK k : k = InitialConfiguration(P, w)
    OBVIOUS
  <2>2. Trace[prog][w][Position(k)] = k
    <3>1. k = InitialConfiguration(Code[prog], w) /\ w \in Worlds(Code[prog])
      BY <2>1 DEF P
    <3> QED BY <1>1, <3>1, TraceStart
  <2>3. Position(c) = Position(k)
    BY <1>3, <2>1 DEF InitialContext, InitialConfiguration, Position
  <2>4. c \in Live /\ w \in PathWorlds(P, c)
    <3>1. \A x \in FlattenedInterface(P) : InitialValue(P, x) \in BOOLEAN
      BY <1>1, ExpressionsAssumption DEF P
    <3>2. PathWorlds(P, c) = Worlds(P)
      BY <1>3, <3>1, InitialMeans
    <3> QED BY <1>1, <1>3, <3>2 DEF Live
  <2>5. RunsAt[w] = Trace[prog][w][Position(c)]
    BY <1>1, <2>4, RunOfContext
  <2> QED BY <2>1, <2>2, <2>3, <2>5
<1>6. RunsAt = [w \in Worlds(P) |-> InitialConfiguration(P, w)]
  BY <1>4, <1>5, Zenon
<1>7. RunsAt = [w \in Abstract!Worlds(Code[prog]) |-> Abstract!InitialConfiguration(Code[prog], w)]
  BY <1>6, SameWorlds, SameRuns DEF P
<1> QED BY <1>1, <1>7 DEF Abstract!Init

(* Every step of the engine is one of ScanCycle, or moves nothing.         *)
LEMMA NextImplements ==
  RefinementInv /\ RefinementInv' /\ [Next]_vars
    => [Abstract!Next]_<<prog, RunsAt, branches, timedOut>>
<1> SUFFICES ASSUME RefinementInv, RefinementInv', [Next]_vars
             PROVE  Abstract!Next \/ UNCHANGED <<prog, RunsAt, branches, timedOut>>
  OBVIOUS
<1>1. RunsInv /\ RunsInv' /\ Inv' /\ Faithful'
  BY DEF RefinementInv, CoverageInv, RunsInv
<1>2. CASE UNCHANGED vars
  BY <1>2, DoneRests
<1>3. CASE TimeOut
  BY <1>3, TimeOutInterrupts
<1>4. CASE RunLoop
  <2>1. phase' = "step" \/ phase' = "done"
    <3>1. phase' = IF TerminationCriteriaMet THEN "done" ELSE "step"
      BY <1>4 DEF RunLoop
    <3>2. CASE TerminationCriteriaMet
      BY <3>1, <3>2
    <3>3. CASE ~TerminationCriteriaMet
      BY <3>1, <3>3
    <3> QED BY <3>2, <3>3
  <2> QED BY <1>4, <2>1, HandOnRests, EngineStops
<1>5. CASE LocalTermination
  BY <1>5, EngineStops
<1>6. CASE EndOfStep \/ BeginMerge \/ EndMerge
  BY <1>6, HandOnRests
<1>7. CASE MergePair
  BY <1>7, MergePairRests
<1>8. CASE Dispatch
  BY <1>8, DispatchRests
<1>9. CASE \/ HandlePassThroughVertex \/ VisitAssignmentInstruction \/ VisitIfInstruction
           \/ VisitCallInstruction \/ HandleProgramExitVertex \/ HandleFunctionBlockExitVertex
  <2>1. ExecutesStep \/ WaitsAtCall
    BY <1>1, <1>9, HandlePassThroughVertexRuns, VisitAssignmentInstructionRuns,
       VisitIfInstructionRuns, VisitCallInstructionRuns, HandleProgramExitVertexRuns,
       HandleFunctionBlockExitVertexRuns
  <2> QED BY <2>1, ExecutesStepAdvances, WaitsAtCallRests
<1>10. CASE ApplyNextSummary
  BY <1>10, ApplyNextSummaryAdvances
<1> QED BY <1>2, <1>3, <1>4, <1>5, <1>6, <1>7, <1>8, <1>9, <1>10 DEF Next, EngineStep, Done

(* The invariant that the refinement rests on: runs that wait behind a     *)
(* call still have a summary to come or one that has taken them past it.   *)
THEOREM RunsReturn ==
  Spec /\ prog \in CoveredPrograms /\ []Faithful => []RefinementInv
<1>1. Init /\ Faithful /\ prog \in CoveredPrograms => RefinementInv
  BY InitRefines
<1> QED BY <1>1, NextRefines, PTL DEF Spec

(* The engine implements ScanCycle: every step of Engine::run, merges and  *)
(* applied summaries included, moves the runs of the program that its      *)
(* contexts stand for, those at one vertex at once, or none of them.       *)
THEOREM RunsTheProgram ==
  Spec /\ prog \in CoveredPrograms /\ []Faithful => ImplementsScanCycle
<1>1. Init /\ RefinementInv => Abstract!Init
  BY InitImplements
<1> QED BY <1>1, NextImplements, RunsReturn, PTL DEF Spec, ImplementsScanCycle, Abstract!Spec
=============================================================================
