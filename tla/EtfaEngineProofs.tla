------------------------ MODULE EtfaEngineProofs -------------------------
(***************************************************************************)
(* Proofs about the ETFA engine, for all programs, time-outs and cycle     *)
(* bounds.                                                                 *)
(***************************************************************************)
EXTENDS EtfaInvariant, ProgramProofs

-----------------------------------------------------------------------------
(* Contexts.                                                               *)

Record(c) == c = [cycle |-> c.cycle, label |-> c.label, stack |-> c.stack,
                  val |-> c.val, pc |-> c.pc, ver |-> c.ver]

(* The ways a step changes the position of a context.                      *)
MoveTo(c, l) == [c EXCEPT !.label = l]

MoveUnder(c, l, pc) == [c EXCEPT !.label = l, !.pc = pc]

Enter(c, i, r) ==
  [c EXCEPT !.stack = Append(@, [scope |-> Append(Scope(c), i), ret |-> r])]

(* Changing the label, the store or the path constraint of a context.      *)
LEMMA SameStack ==
  ASSUME NEW p, NEW c, ContextOK(p, c), NEW d, Record(d),
         d.stack = c.stack, d.ver \in [FlattenedInterface(p) -> Nat]
  PROVE  ContextOK(p, d) /\ Scope(d) = Scope(c) /\ Depth(d) = Depth(c)
BY DEF ContextOK, Record, Scope, Depth

(* The frames of a context.                                                *)
LEMMA FramesOfContext ==
  ASSUME NEW p, WellFormed(p), NEW c, ContextOK(p, c)
  PROVE  /\ Depth(c) \in Nat \ {0} /\ DOMAIN c.stack = 1 .. Depth(c)
         /\ Scope(c) \in DOMAIN p.scopes /\ Len(Scope(c)) = Depth(c)
         /\ Depth(c) = 1 => Scope(c) = MainScope(p) /\ ReturnLabel(c) = MainCfg(p).entry
         /\ CfgOf(p, Scope(c)).type = "PROGRAM" <=> Depth(c) = 1
BY FramesOfStack DEF ContextOK

(* A context that goes to another label of the same graph.                 *)
LEMMA MoveOK ==
  ASSUME NEW p, NEW c, ContextOK(p, c), NEW l, NEW d, d = MoveTo(c, l)
  PROVE  /\ ContextOK(p, d) /\ Scope(d) = Scope(c) /\ Depth(d) = Depth(c)
         /\ d.label = l /\ d.cycle = c.cycle
<1>1. Record(c) /\ c.ver \in [FlattenedInterface(p) -> Nat]
  BY DEF ContextOK, Record
<1>2. /\ Record(d) /\ d.stack = c.stack /\ d.ver = c.ver
      /\ d.label = l /\ d.cycle = c.cycle
  BY <1>1 DEF Record, MoveTo
<1> QED BY <1>1, <1>2, SameStack

(* The same with another path constraint.                                  *)
LEMMA BranchOK ==
  ASSUME NEW p, NEW c, ContextOK(p, c), NEW l, NEW pc,
         NEW d, d = MoveUnder(c, l, pc)
  PROVE  /\ ContextOK(p, d) /\ Scope(d) = Scope(c) /\ Depth(d) = Depth(c)
         /\ d.label = l /\ d.cycle = c.cycle
<1>1. Record(c) /\ c.ver \in [FlattenedInterface(p) -> Nat]
  BY DEF ContextOK, Record
<1>2. /\ Record(d) /\ d.stack = c.stack /\ d.ver = c.ver
      /\ d.label = l /\ d.cycle = c.cycle
  BY <1>1 DEF Record, MoveUnder
<1> QED BY <1>1, <1>2, SameStack

(* Versions stay numbers when one of them is taken from another store.     *)
LEMMA NextVersion ==
  ASSUME NEW F, NEW f \in [F -> Nat], NEW g \in [F -> Nat], NEW x
  PROVE  [f EXCEPT ![x] = g[x] + 1] \in [F -> Nat]
<1>1. CASE x \in F
  BY <1>1
<1>2. CASE x \notin F
  BY <1>2
<1> QED BY <1>1, <1>2

(* Assign writes a number to the version of the context.                   *)
LEMMA AssignOK ==
  ASSUME NEW p, NEW c, ContextOK(p, c), NEW ver \in [FlattenedInterface(p) -> Nat],
         NEW x, NEW e, NEW l, NEW d, d = Assign(p, ver, c, x, e, l)
  PROVE  /\ ContextOK(p, d) /\ Scope(d) = Scope(c) /\ Depth(d) = Depth(c)
         /\ d.label = l /\ d.cycle = c.cycle
<1>1. Record(c)
  BY DEF ContextOK, Record
<1>2. /\ Record(d) /\ d.stack = c.stack /\ d.label = l /\ d.cycle = c.cycle
      /\ d.ver = [c.ver EXCEPT ![x] = ver[x] + 1]
  BY <1>1 DEF Record, Assign
<1>3. c.ver \in [FlattenedInterface(p) -> Nat]
  BY DEF ContextOK
<1>4. d.ver \in [FlattenedInterface(p) -> Nat]
  BY <1>2, <1>3, NextVersion
<1> QED BY <1>2, <1>4, SameStack

(* The context that starts the next cycle is at the entry of the program.  *)
LEMMA NextCycleOK ==
  ASSUME NEW p, WellFormed(p), NEW c, ContextOK(p, c), Depth(c) = 1,
         NEW d, d = NextCycle(p, c)
  PROVE  /\ ContextOK(p, d) /\ AtVertex(p, d) /\ Depth(d) = 1
         /\ d.cycle = c.cycle + 1
<1>1. Record(c)
  BY DEF ContextOK, Record
<1>2. /\ Record(d) /\ d.stack = c.stack /\ d.label = ReturnLabel(c)
      /\ d.cycle = c.cycle + 1 /\ d.ver = [x \in FlattenedInterface(p) |-> 0]
  BY <1>1 DEF Record, NextCycle
<1>3. ContextOK(p, d) /\ Scope(d) = Scope(c) /\ Depth(d) = 1
  BY <1>2, SameStack
<1>4. Scope(c) = MainScope(p) /\ ReturnLabel(c) = MainCfg(p).entry
  BY FramesOfContext
<1>5. AtVertex(p, d)
  BY <1>2, <1>3, <1>4 DEF AtVertex, MainCfg, WellFormed
<1> QED BY <1>2, <1>3, <1>5

(* The join of two contexts stays where the first one is.                  *)
LEMMA MergeOK ==
  ASSUME NEW p, NEW c, ContextOK(p, c), NEW c2, NEW ver \in [FlattenedInterface(p) -> Nat],
         NEW d, d = Merge(p, ver, c, c2)
  PROVE  /\ ContextOK(p, d) /\ Scope(d) = Scope(c) /\ Depth(d) = Depth(c)
         /\ d.label = c.label /\ d.cycle = c.cycle /\ d.stack = c.stack
<1>1. Record(c)
  BY DEF ContextOK, Record
<1> DEFINE diff == VersionsDiffer(c, c2)
<1>2. /\ Record(d) /\ d.stack = c.stack /\ d.label = c.label /\ d.cycle = c.cycle
      /\ d.ver = [x \in DOMAIN c.ver |-> IF x \in diff THEN ver[x] + 1 ELSE c.ver[x]]
  BY <1>1 DEF Record, Merge
<1>3. c.ver \in [FlattenedInterface(p) -> Nat]
  BY DEF ContextOK
<1>4. d.ver \in [FlattenedInterface(p) -> Nat]
  <2> HIDE DEF diff
  <2> QED BY <1>2, <1>3
<1> QED BY <1>2, <1>4, SameStack

(* Applying a summary changes store, path constraint and versions only.    *)
LEMMA ApplySummaryOK ==
  ASSUME NEW p, WellFormedSummaries(p), NEW c, ContextOK(p, c),
         NEW ver \in [FlattenedInterface(p) -> Nat],
         NEW k \in DOMAIN SummariesAt(p, c),
         NEW d, d = ApplySummary(p, ver, c, SummariesAt(p, c)[k])
  PROVE  /\ ContextOK(p, d) /\ Scope(d) = Scope(c) /\ Depth(d) = Depth(c)
         /\ d.label = c.label /\ d.cycle = c.cycle /\ d.stack = c.stack
<1> DEFINE s == SummariesAt(p, c)[k]
           f == p.scopes[Scope(c)]
<1>1. f \in DOMAIN p.summaries /\ s = p.summaries[f][k] /\ k \in DOMAIN p.summaries[f]
  BY SummariesOfCallee
<1>2. \A x \in WrittenVariables(s) : HighestVersion(s, x) \in Nat
  <2> HIDE DEF f
  <2> QED BY <1>1, HighestVersionIsHighest
<1>3. Record(c) /\ c.ver \in [FlattenedInterface(p) -> Nat]
  BY DEF ContextOK, Record
<1>4. /\ Record(d) /\ d.stack = c.stack /\ d.label = c.label /\ d.cycle = c.cycle
      /\ d.ver = [x \in DOMAIN c.ver |-> IF x \in WrittenVariables(s)
                                         THEN ver[x] + 1 + HighestVersion(s, x)
                                         ELSE c.ver[x]]
  <2> HIDE DEF s
  <2>1. d = ApplySummary(p, ver, c, s)
    BY DEF s
  <2> QED BY <1>3, <2>1 DEF Record, ApplySummary
<1>5. d.ver \in [FlattenedInterface(p) -> Nat]
  <2> HIDE DEF s
  <2> QED BY <1>2, <1>3, <1>4
<1> QED BY <1>4, <1>5, SameStack

(* A call pushes a frame of the called instance.                           *)
LEMMA PushFrameOK ==
  ASSUME NEW p, WellFormed(p), NEW c, ContextOK(p, c), NEW i,
         Append(Scope(c), i) \in DOMAIN p.scopes,
         NEW r \in DOMAIN CfgOf(p, Scope(c)).vertices,
         NEW d, d = Enter(c, i, r)
  PROVE  /\ ContextOK(p, d) /\ Scope(d) = Append(Scope(c), i) /\ Depth(d) = Depth(c) + 1
         /\ d.label = c.label /\ d.cycle = c.cycle
<1>1. Record(c) /\ c.ver \in [FlattenedInterface(p) -> Nat] /\ StackOK(p, c.stack)
  BY DEF ContextOK, Record
<1>2. /\ Record(d) /\ Pushed(c, i, r, d) /\ d.label = c.label
      /\ d.cycle = c.cycle /\ d.ver = c.ver
  BY <1>1 DEF Record, Enter, Frame, Pushed
<1>3. StackOK(p, d.stack) /\ Scope(d) = Append(Scope(c), i) /\ Depth(d) = Depth(c) + 1
  BY <1>1, <1>2, PushFrame
<1> QED BY <1>1, <1>2, <1>3 DEF ContextOK, Record

(* A return pops the frame and goes to its return label.                   *)
LEMMA PopFrameOK ==
  ASSUME NEW p, WellFormed(p), NEW c, ContextOK(p, c), Depth(c) > 1,
         NEW d, d = [c EXCEPT !.label = ReturnLabel(c), !.stack = SubSeq(@, 1, Len(@) - 1)]
  PROVE  ContextOK(p, d) /\ AtVertex(p, d) /\ d.cycle = c.cycle
<1>1. Record(c) /\ c.ver \in [FlattenedInterface(p) -> Nat] /\ StackOK(p, c.stack)
  BY DEF ContextOK, Record
<1>2. /\ Record(d) /\ d.stack = SubSeq(c.stack, 1, Depth(c) - 1) /\ d.label = ReturnLabel(c)
      /\ d.cycle = c.cycle /\ d.ver = c.ver
  BY <1>1 DEF Record, Depth
<1>3. StackOK(p, d.stack) /\ AtVertex(p, d)
  BY <1>1, <1>2, PopFrame
<1> QED BY <1>1, <1>2, <1>3 DEF ContextOK, Record

-----------------------------------------------------------------------------
(* The invariant.  Each action has a lemma; those of the executor share    *)
(* ReturnOK.                                                               *)

(* The program that is executed is well-formed.                            *)
LEMMA ProgramOK ==
  ASSUME EngineOK
  PROVE  WellFormed(P) /\ WellFormedSummaries(P)
BY CodeAssumption DEF EngineOK, P

(* The initial state.                                                      *)
LEMMA InitOK == Init => ControlInv
<1> SUFFICES ASSUME Init PROVE ControlInv
  OBVIOUS
<1> DEFINE c == InitialContext(P)
<1>1. prog \in Programs /\ WellFormed(P)
  BY CodeAssumption DEF Init, P
<1>2. MainScope(P) \in DOMAIN P.scopes /\ MainCfg(P).entry \in DOMAIN MainCfg(P).vertices
      /\ MainCfg(P).entry \in Nat /\ P.scopes[MainScope(P)] \in DOMAIN P.cfgs
  BY <1>1 DEF WellFormed, MainCfg, WellFormedVertex
<1>3. EngineOK
  <2>1. cycle \in 0 .. CycleBound /\ phase \in Phases /\ phase = "run"
    BY CycleBoundAssumption DEF Init, Phases
  <2>5. timedOut \in BOOLEAN
    BY Zenon DEF Init
  <2>2. version \in [FlattenedInterface(P) -> Nat]
    BY DEF Init
  <2>3. DOMAIN merger = MergePoints(P) /\ \A m \in DOMAIN merger : IsSeq(merger[m])
    BY ShortSeq DEF Init
  <2>4. IsSeq(held) /\ IsSeq(pending)
    BY ShortSeq DEF Init
  <2> QED BY <1>1, <2>1, <2>2, <2>3, <2>4, <2>5 DEF EngineOK
<1>4. CoverageOK
  BY <1>2 DEF Init, CoverageOK, Statements, MainCfg, CfgOf
<1>5. /\ c.cycle = 0 /\ c.label = MainCfg(P).entry /\ c.stack = <<MainFrame(P)>>
      /\ Record(c) /\ c.ver = [x \in FlattenedInterface(P) |-> 0]
  BY DEF InitialContext, MainFrame, Record
<1> HIDE DEF c
<1>6. StackOK(P, c.stack)
  <2>1. MainFrame(P) \in [scope : DOMAIN P.scopes, ret : Nat]
    BY <1>2 DEF MainFrame
  <2>2. Len(MainFrame(P).scope) = 1
    BY DEF MainFrame, MainScope
  <2> DEFINE F == [scope : DOMAIN P.scopes, ret : Nat]
  <2>3. MainFrame(P) \in F
    BY <2>1
  <2> HIDE DEF F
  <2>4. /\ c.stack \in Seq(F) /\ c.stack # <<>> /\ DOMAIN c.stack = {1}
        /\ c.stack[1] = MainFrame(P)
    BY <1>5, <2>3
  <2>5. c.stack \in Seq([scope : DOMAIN P.scopes, ret : Nat])
    BY <2>4 DEF F
  <2> QED BY <2>2, <2>4, <2>5 DEF StackOK
<1>7. ContextOK(P, c) /\ AtVertex(P, c)
  BY <1>2, <1>5, <1>6 DEF ContextOK, Record, AtVertex, Scope, MainFrame, MainCfg
<1>8. InMerger = {} /\ MergerIsEmpty /\ explorer = {c} /\ Live = {c}
      /\ RangeOf(held) = {} /\ RangeOf(pending) = {} /\ succeeding = {}
      /\ held = <<>> /\ pending = <<>> /\ phase = "run" /\ cycle = 0
      /\ \A m \in DOMAIN merger : RangeOf(merger[m]) = {}
  BY ShortSeq DEF Init, InMerger, MergerIsEmpty, Live, c
<1>9. ContextsOK /\ CyclesOK /\ PhasesOK /\ MergerOK /\ ExitOK
  BY <1>5, <1>7, <1>8 DEF ContextsOK, CyclesOK, PhasesOK, MergerOK, ExitOK
<1> QED BY <1>3, <1>4, <1>9 DEF ControlInv

(* The clock.                                                              *)
LEMMA TimeOutOK ==
  ASSUME ControlInv, TimeOut
  PROVE  ControlInv'
<1>1. P' = P /\ MergerIsEmpty' = MergerIsEmpty /\ InMerger' = InMerger /\ Live' = Live
  BY DEF TimeOut, contextVars, P, MergerIsEmpty, InMerger, Live
<1>2. EngineOK' /\ CoverageOK'
  BY <1>1 DEF ControlInv, TimeOut, contextVars, coverageVars, EngineOK, CoverageOK
<1>3. ContextsOK' /\ CyclesOK' /\ MergerOK'
  BY <1>1 DEF ControlInv, TimeOut, contextVars, ContextsOK, CyclesOK, MergerOK
<1>4. PhasesOK' /\ ExitOK'
  BY <1>1 DEF ControlInv, TimeOut, contextVars, PhasesOK, ExitOK, AtProgramExit
<1> QED BY <1>2, <1>3, <1>4 DEF ControlInv
(* The loop condition of Engine::run.                                      *)
LEMMA RunLoopOK ==
  ASSUME ControlInv, RunLoop
  PROVE  ControlInv'
<1>1. P' = P /\ MergerIsEmpty' = MergerIsEmpty /\ InMerger' = InMerger /\ Live' = Live
  BY DEF RunLoop, contextVars, P, MergerIsEmpty, InMerger, Live
<1>2. EngineOK'
  <2>1. phase' \in Phases /\ (phase' \notin {"run", "done"} => cycle < CycleBound)
    BY CycleBoundAssumption DEF ControlInv, EngineOK, RunLoop, Phases, TerminationCriteriaMet
  <2> QED BY <1>1, <2>1 DEF ControlInv, RunLoop, contextVars, EngineOK
<1>3. CoverageOK' /\ ContextsOK' /\ CyclesOK' /\ MergerOK'
  BY <1>1 DEF ControlInv, RunLoop, contextVars, coverageVars, CoverageOK, ContextsOK, CyclesOK, MergerOK
<1>4. PhasesOK' /\ ExitOK'
  BY <1>1 DEF ControlInv, RunLoop, contextVars, PhasesOK, ExitOK, AtProgramExit
<1> QED BY <1>2, <1>3, <1>4 DEF ControlInv

(* The next cycle.                                                         *)
LEMMA EndOfStepOK ==
  ASSUME ControlInv, EndOfStep
  PROVE  ControlInv'
<1>1. P' = P /\ MergerIsEmpty' = MergerIsEmpty /\ InMerger' = InMerger
      /\ MergerIsEmpty /\ held' = held /\ pending' = pending
      /\ held = <<>> /\ pending = <<>> /\ phase' = "run" /\ phase = "step"
      /\ explorer' = succeeding /\ succeeding' = {}
  BY DEF ControlInv, PhasesOK, EndOfStep, P, MergerIsEmpty, InMerger
<1>2. InMerger = {} /\ RangeOf(held) = {} /\ RangeOf(pending) = {}
  BY <1>1, ShortSeq DEF InMerger, MergerIsEmpty
<1>3. Live' = succeeding /\ succeeding \subseteq Live
  BY <1>1, <1>2 DEF Live
<1>4. EngineOK' /\ CoverageOK'
  <2>1. phase' \in Phases /\ cycle' \in 0 .. CycleBound
    BY CycleBoundAssumption DEF ControlInv, EngineOK, EndOfStep, Phases
  <2>2. EngineOK'
    BY <1>1, <2>1 DEF ControlInv, EndOfStep, EngineOK
  <2>3. CoverageOK'
    BY <1>1 DEF ControlInv, EndOfStep, coverageVars, CoverageOK
  <2> QED BY <2>2, <2>3
<1>5. ContextsOK'
  BY <1>1, <1>2, <1>3 DEF ControlInv, ContextsOK
<1>6. CyclesOK'
  BY <1>1, <1>2 DEF ControlInv, CyclesOK, EndOfStep
<1>7. PhasesOK'
  BY <1>1 DEF PhasesOK
<1>8. MergerOK'
  BY DEF ControlInv, MergerOK, EndOfStep
<1>9. ExitOK'
  BY <1>1, <1>2, succeeding # {} DEF ControlInv, ExitOK, EndOfStep
<1> QED BY <1>4, <1>5, <1>6, <1>7, <1>8, <1>9 DEF ControlInv

(* Engine::step returns early.                                             *)
LEMMA LocalTerminationOK ==
  ASSUME ControlInv, LocalTermination
  PROVE  ControlInv'
<1>0. PICK c \in explorer : explorer' = explorer \ {c}
  BY DEF LocalTermination
<1>1. P' = P /\ MergerIsEmpty' = MergerIsEmpty /\ InMerger' = InMerger
      /\ held' = held /\ pending' = pending /\ succeeding' = succeeding
      /\ phase' = "done" /\ phase = "step" /\ explorer' \subseteq explorer
  BY <1>0 DEF LocalTermination, P, MergerIsEmpty, InMerger
<1>2. Live' \subseteq Live
  BY <1>1 DEF Live
<1>4. EngineOK' /\ CoverageOK'
  BY <1>1 DEF ControlInv, LocalTermination, EngineOK, Phases, coverageVars, CoverageOK
<1>5. ContextsOK' /\ CyclesOK' /\ MergerOK'
  BY <1>1, <1>2 DEF ControlInv, LocalTermination, ContextsOK, CyclesOK, MergerOK
<1>6. PhasesOK'
  BY <1>1 DEF PhasesOK
<1>7. ExitOK'
  <2>1. succeeding = {}
    BY <1>0 DEF ControlInv, ExitOK
  <2>2. ASSUME NEW d \in explorer', AtProgramExit(d)
        PROVE  FALSE
    BY <1>0, <1>1, <2>2 DEF ControlInv, ExitOK
  <2>3. pending = <<>> /\ RangeOf(pending) = {}
    BY <1>1, ShortSeq DEF ControlInv, PhasesOK
  <2> QED BY <1>1, <2>1, <2>2, <2>3 DEF ExitOK, AtProgramExit
<1> QED BY <1>4, <1>5, <1>6, <1>7 DEF ControlInv
(* At the exit of the program a context is at the last merge point.        *)
LEMMA AtProgramExitPoint ==
  ASSUME WellFormed(P), NEW c, ContextOK(P, c)
  PROVE  AtProgramExit(c) <=>
           MergePoint(c) = <<MainScope(P), 1, MainCfg(P).exit, MainCfg(P).entry>>
BY FramesOfContext DEF AtProgramExit, MergePoint

(* Merger::merge takes the exit of the program only when it is all that is *)
(* left: it is the least deep merge point, and the last one of its depth.  *)
LEMMA BeginMergeOK ==
  ASSUME ControlInv, BeginMerge
  PROVE  ControlInv'
<1>0. PICK m \in DOMAIN merger :
        Eligible(m) /\ held' = merger[m] /\ merger' = [merger EXCEPT ![m] = <<>>]
  BY DEF BeginMerge
<1>1. P' = P /\ phase = "step" /\ phase' = "merge" /\ explorer = {} /\ explorer' = {}
      /\ held = <<>> /\ pending = <<>> /\ pending' = <<>> /\ succeeding' = succeeding
      /\ merger[m] # <<>>
  BY <1>0 DEF BeginMerge, P, ControlInv, PhasesOK, Eligible
<1>2. WellFormed(P)
  BY ProgramOK DEF ControlInv
<1>3. RangeOf(held') \subseteq InMerger /\ InMerger' \subseteq InMerger
      /\ RangeOf(pending) = {} /\ RangeOf(pending') = {} /\ RangeOf(held) = {}
  <2>1. \A k \in DOMAIN merger : RangeOf(merger'[k]) \subseteq RangeOf(merger[k])
    BY <1>0, ShortSeq
  <2>2. DOMAIN merger' = DOMAIN merger
    BY <1>0
  <2>3. RangeOf(held') \subseteq InMerger
    BY <1>0 DEF InMerger
  <2> QED BY <1>1, <2>1, <2>2, <2>3, ShortSeq DEF InMerger
<1>4. succeeding = {} /\ Live' \subseteq Live
  <2>1. ~MergerIsEmpty
    BY <1>0, <1>1 DEF MergerIsEmpty
  <2> QED BY <1>1, <1>3, <2>1 DEF Live, ControlInv, ExitOK
<1>5. EngineOK'
  <2>1. \A k \in DOMAIN merger' : IsSeq(merger'[k])
    BY <1>0, ShortSeq DEF ControlInv, EngineOK
  <2>2. IsSeq(held') /\ IsSeq(pending')
    BY <1>0, <1>1, ShortSeq DEF ControlInv, EngineOK
  <2>3. DOMAIN merger' = MergePoints(P)
    BY <1>0 DEF ControlInv, EngineOK
  <2> QED BY <1>1, <2>1, <2>2, <2>3 DEF ControlInv, EngineOK, BeginMerge, Phases
<1>6. CoverageOK'
  BY <1>1 DEF ControlInv, CoverageOK, BeginMerge, coverageVars
<1>7. ContextsOK' /\ CyclesOK'
  BY <1>1, <1>3, <1>4 DEF ControlInv, ContextsOK, CyclesOK, BeginMerge
<1>8. PhasesOK'
  BY <1>0, <1>1 DEF PhasesOK
<1>9. MergerOK'
  BY <1>0, ShortSeq DEF ControlInv, MergerOK
<1>10. ASSUME NEW c \in RangeOf(held')
       PROVE  MergePoint(c) = m /\ (AtProgramExit(c) => MergerIsEmpty')
  <2>1. MergePoint(c) = m
    BY <1>0 DEF ControlInv, MergerOK
  <2>2. SUFFICES ASSUME AtProgramExit(c) PROVE MergerIsEmpty'
    BY <2>1
  <2>3. ContextOK(P, c)
    BY <1>3 DEF ControlInv, ContextsOK, Live
  <2>4. m = <<MainScope(P), 1, MainCfg(P).exit, MainCfg(P).entry>>
    BY <1>2, <2>1, <2>2, <2>3, AtProgramExitPoint
  <2>5. ASSUME NEW k \in DOMAIN merger, merger[k] # <<>>
        PROVE  k = m
    <3>1. k \in MergePoints(P)
      BY DEF ControlInv, EngineOK
    <3>2. \/ m[2] > k[2]
          \/ m[2] = k[2] /\ m[4] < k[4]
          \/ m[2] = k[2] /\ m[4] = k[4] /\ m[3] <= k[3]
      BY <1>0, <2>5 DEF Eligible
    <3>3. m[2] = 1 /\ m[3] = MainCfg(P).exit /\ m[4] = MainCfg(P).entry
      BY <2>4
    <3>4. MainCfg(P).entry \in Nat /\ MainCfg(P).exit \in Nat
      BY <1>2 DEF WellFormed, WellFormedVertex, MainCfg
    <3>5. k[2] \in Nat /\ k = <<k[1], k[2], k[3], k[4]>>
      BY <1>2, <3>1 DEF MergePoints, WellFormed
    <3>6. k[2] <= 1
      BY <3>2, <3>3, <3>5
    <3>7. /\ k[1] = MainScope(P) /\ k[2] = 1 /\ k[4] = MainCfg(P).entry
          /\ k[3] \in Nat /\ k[3] <= MainCfg(P).exit
      BY <1>2, <3>1, <3>6, ExitIsLastMergePoint
    <3>8. k[3] = MainCfg(P).exit
      BY <3>2, <3>3, <3>4, <3>7
    <3> QED BY <2>4, <3>5, <3>7, <3>8
  <2> QED BY <1>0, <2>5 DEF MergerIsEmpty
<1>11. ExitOK'
  BY <1>1, <1>3, <1>4, <1>10 DEF ExitOK, AtProgramExit
<1> QED BY <1>5, <1>6, <1>7, <1>8, <1>9, <1>11 DEF ControlInv

(* Two contexts become one.                                                *)
LEMMA MergePairOK ==
  ASSUME ControlInv, MergePair
  PROVE  ControlInv'
<1> DEFINE d == Merge(P, version, held[1], held[2])
<1>1. P' = P /\ phase = "merge" /\ phase' = "merge" /\ explorer = {} /\ explorer' = {}
      /\ pending = <<>> /\ pending' = <<>> /\ succeeding' = succeeding /\ succeeding = {}
      /\ merger' = merger /\ InMerger' = InMerger /\ MergerIsEmpty' = MergerIsEmpty
      /\ held' = <<d>> \o SubSeq(held, 3, Len(held)) /\ IsSeq(held) /\ Len(held) > 1
      /\ version \in [FlattenedInterface(P) -> Nat]
  BY DEF MergePair, P, ControlInv, PhasesOK, EngineOK, ExitOK, InMerger, MergerIsEmpty
<1>2. /\ IsSeq(held') /\ held' # <<>> /\ RangeOf(held') \subseteq {d} \cup RangeOf(held)
      /\ held[1] \in RangeOf(held)
  <2> HIDE DEF d
  <2>1. Replaces(held, d, held')
    BY <1>1 DEF Replaces
  <2> QED BY <1>1, <2>1, ReplaceFirstTwo
<1>3. ContextOK(P, held[1]) /\ AtVertex(P, held[1]) /\ held[1].cycle = cycle
  BY <1>1, <1>2 DEF ControlInv, ContextsOK, CyclesOK, Live
<1>4. /\ ContextOK(P, d) /\ Scope(d) = Scope(held[1]) /\ Depth(d) = Depth(held[1])
      /\ d.label = held[1].label /\ d.cycle = held[1].cycle /\ d.stack = held[1].stack
  <2> HIDE DEF d
  <2>1. d = Merge(P, version, held[1], held[2])
    BY DEF d
  <2> QED BY <1>1, <1>3, <2>1, MergeOK
<1> HIDE DEF d
<1>5. AtVertex(P, d) /\ MergePoint(d) = MergePoint(held[1]) /\ d.cycle = cycle
      /\ (AtProgramExit(d) <=> AtProgramExit(held[1]))
  BY <1>3, <1>4 DEF AtVertex, MergePoint, ReturnLabel, AtProgramExit
<1>6. Live' \subseteq Live \cup {d} /\ RangeOf(pending) = {} /\ RangeOf(pending') = {}
  BY <1>1, <1>2, ShortSeq DEF Live
<1>7. EngineOK'
  <2>1. version' \in [FlattenedInterface(P) -> Nat]
    BY <1>1 DEF MergePair
  <2> QED BY <1>1, <1>2, <2>1, ShortSeq DEF ControlInv, EngineOK, MergePair
<1>8. CoverageOK'
  BY <1>1 DEF ControlInv, CoverageOK, MergePair, coverageVars
<1>9. ContextsOK' /\ CyclesOK'
  BY <1>1, <1>2, <1>4, <1>5, <1>6 DEF ControlInv, ContextsOK, CyclesOK, MergePair
<1>10. PhasesOK' /\ MergerOK'
  BY <1>1, <1>2 DEF ControlInv, PhasesOK, MergerOK
<1>11. ExitOK'
  BY <1>1, <1>2, <1>5, <1>6 DEF ControlInv, ExitOK, AtProgramExit
<1> QED BY <1>7, <1>8, <1>9, <1>10, <1>11 DEF ControlInv

(* The merged context goes back to the explorer.                           *)
LEMMA EndMergeOK ==
  ASSUME ControlInv, EndMerge
  PROVE  ControlInv'
<1>1. P' = P /\ phase = "merge" /\ phase' = "step" /\ explorer' = {held[1]}
      /\ pending = <<>> /\ pending' = <<>> /\ succeeding' = {} /\ succeeding = {}
      /\ merger' = merger /\ InMerger' = InMerger /\ MergerIsEmpty' = MergerIsEmpty
      /\ held' = <<>> /\ IsSeq(held) /\ held # <<>>
  BY DEF EndMerge, P, ControlInv, PhasesOK, EngineOK, ExitOK, InMerger, MergerIsEmpty
<1>2. held[1] \in RangeOf(held) /\ RangeOf(held') = {} /\ RangeOf(pending') = {}
  BY <1>1, NonemptySeq, ShortSeq
<1>3. Live' \subseteq Live
  BY <1>1, <1>2 DEF Live
<1>4. EngineOK' /\ CoverageOK'
  BY <1>1, ShortSeq DEF ControlInv, EngineOK, CoverageOK, Phases, EndMerge, coverageVars
<1>5. ContextsOK' /\ CyclesOK'
  BY <1>1, <1>2, <1>3 DEF ControlInv, ContextsOK, CyclesOK, EndMerge
<1>6. PhasesOK' /\ MergerOK'
  BY <1>1 DEF ControlInv, PhasesOK, MergerOK
<1>7. ExitOK'
  BY <1>1, <1>2 DEF ControlInv, ExitOK, AtProgramExit
<1> QED BY <1>4, <1>5, <1>6, <1>7 DEF ControlInv
(* The context that is popped, and what is left without it.                *)
LEMMA PopOK ==
  ASSUME ControlInv, NEW c \in explorer, Pop(c)
  PROVE  /\ P' = P /\ phase = "step" /\ cycle' = cycle /\ cycle \in Nat /\ cycle < CycleBound
         /\ explorer' = explorer \ {c}
         /\ merger' = merger /\ InMerger' = InMerger /\ MergerIsEmpty' = MergerIsEmpty
         /\ held = <<>> /\ pending = <<>> /\ succeeding = {} /\ succeeding' = {}
         /\ WellFormed(P) /\ ContextOK(P, c) /\ AtVertex(P, c) /\ c.cycle = cycle
         /\ Scope(c) \in DOMAIN P.scopes /\ WellFormedVertex(P, Scope(c), c.label)
         /\ \A d \in explorer' : ~AtProgramExit(d)
<1>1. P' = P /\ phase = "step" /\ cycle' = cycle /\ explorer' = explorer \ {c}
      /\ merger' = merger /\ InMerger' = InMerger /\ MergerIsEmpty' = MergerIsEmpty
      /\ succeeding' = succeeding
  BY DEF Pop, P, InMerger, MergerIsEmpty
<1>2. held = <<>> /\ pending = <<>> /\ succeeding = {} /\ cycle \in Nat /\ cycle < CycleBound
  BY <1>1, CycleBoundAssumption DEF ControlInv, PhasesOK, ExitOK, EngineOK
<1>3. ContextOK(P, c) /\ AtVertex(P, c) /\ c.cycle = cycle
  BY DEF ControlInv, ContextsOK, CyclesOK, Live
<1>4. WellFormed(P)
  BY ProgramOK DEF ControlInv
<1>5. Scope(c) \in DOMAIN P.scopes /\ WellFormedVertex(P, Scope(c), c.label)
  BY <1>3, <1>4, FramesOfContext DEF AtVertex, WellFormed
<1>6. \A d \in explorer' : ~AtProgramExit(d)
  BY <1>1 DEF ControlInv, ExitOK
<1> QED BY <1>1, <1>2, <1>3, <1>4, <1>5, <1>6

(* What is covered by executing a popped context.                          *)
LEMMA LabelIsStatement ==
  ASSUME NEW p, WellFormed(p), NEW s \in DOMAIN p.scopes, NEW l \in DOMAIN CfgOf(p, s).vertices
  PROVE  l \in Statements(p)
BY DEF WellFormed, Statements, CfgOf

(* The executor returns contexts of this cycle, or the exit of the program *)
(* was executed and it returns the one context of the next cycle.          *)
LEMMA ReturnOK ==
  ASSUME ControlInv, NEW c \in explorer, Pop(c), NEW contexts, Return(contexts),
         IsSeq(contexts), contexts # <<>>,
         version' \in [FlattenedInterface(P) -> Nat],
         \A d \in RangeOf(contexts) : ContextOK(P, d) /\ AtVertex(P, d),
         \/ \A d \in RangeOf(contexts) : d.cycle = cycle
         \/ /\ AtProgramExit(c) /\ Len(contexts) = 1
            /\ \A d \in RangeOf(contexts) : d.cycle = cycle + 1
  PROVE  ControlInv'
<1>1. /\ P' = P /\ phase = "step" /\ cycle' = cycle /\ cycle \in Nat /\ cycle < CycleBound
      /\ explorer' = explorer \ {c}
      /\ merger' = merger /\ InMerger' = InMerger /\ MergerIsEmpty' = MergerIsEmpty
      /\ held = <<>> /\ pending = <<>> /\ succeeding = {} /\ succeeding' = {}
      /\ \A d \in explorer' : ~AtProgramExit(d)
  BY PopOK
<1>2. held' = <<>> /\ pending' = contexts /\ phase' = "dispatch"
      /\ RangeOf(held') = {} /\ RangeOf(pending') = RangeOf(contexts)
  BY <1>1, ShortSeq DEF Return
<1>3. Live' \subseteq Live \cup RangeOf(contexts)
  BY <1>1, <1>2 DEF Live
<1>4. EngineOK'
  <2>1. phase' \in Phases
    BY <1>2 DEF Phases
  <2> QED BY <1>1, <1>2, <2>1, ShortSeq DEF ControlInv, EngineOK, Pop
<1>5. CoverageOK'
  <2>1. c.label \in Statements(P)
    BY PopOK, LabelIsStatement DEF AtVertex
  <2> QED BY <1>1, <2>1 DEF ControlInv, CoverageOK, Pop, Return, coverageVars
<1>6. ContextsOK'
  BY <1>1, <1>2, <1>3 DEF ControlInv, ContextsOK
<1>7. CyclesOK'
  BY <1>1, <1>2 DEF ControlInv, CyclesOK
<1>8. PhasesOK' /\ MergerOK'
  BY <1>1, <1>2 DEF ControlInv, PhasesOK, MergerOK
<1>9. ExitOK'
  <2>1. AtProgramExit(c) => explorer' = {} /\ MergerIsEmpty
    BY <1>1 DEF ControlInv, ExitOK
  <2>2. \A d \in RangeOf(pending') : d.cycle # cycle' =>
          explorer' = {} /\ MergerIsEmpty' /\ held' = <<>> /\ Len(pending') = 1
    BY <1>1, <1>2, <2>1
  <2>3. \A d \in explorer' : ~(AtProgramExit(d)')
    BY <1>1 DEF AtProgramExit
  <2> QED BY <1>1, <1>2, <2>2, <2>3 DEF ExitOK
<1> QED BY <1>4, <1>5, <1>6, <1>7, <1>8, <1>9 DEF ControlInv

(* The executor returns one context.                                       *)
LEMMA ReturnOneOK ==
  ASSUME ControlInv, NEW c \in explorer, Pop(c), NEW d, Return(<<d>>),
         version' \in [FlattenedInterface(P) -> Nat],
         ContextOK(P, d), AtVertex(P, d),
         d.cycle = cycle \/ (AtProgramExit(c) /\ d.cycle = cycle + 1)
  PROVE  ControlInv'
<1> DEFINE contexts == <<d>>
<1>1. IsSeq(contexts) /\ contexts # <<>> /\ Len(contexts) = 1 /\ RangeOf(contexts) = {d}
  BY ShortSeq
<1>2. Return(contexts)
  OBVIOUS
<1> HIDE DEF contexts
<1>3. \A e \in RangeOf(contexts) : ContextOK(P, e) /\ AtVertex(P, e)
  BY <1>1
<1>4. \/ \A e \in RangeOf(contexts) : e.cycle = cycle
      \/ /\ AtProgramExit(c) /\ Len(contexts) = 1
         /\ \A e \in RangeOf(contexts) : e.cycle = cycle + 1
  BY <1>1
<1> QED BY <1>1, <1>2, <1>3, <1>4, ReturnOK, Zenon

(* Entry vertices and the intermediate vertices of decisions.              *)
LEMMA HandlePassThroughVertexOK ==
  ASSUME ControlInv, HandlePassThroughVertex
  PROVE  ControlInv'
<1>1. PICK c \in explorer :
        /\ Pop(c)
        /\ Vertex(c).type = "ENTRY" \/ (Vertex(c).type = "REGULAR" /\ Vertex(c).op = "none")
        /\ Return(<<[c EXCEPT !.label = SucceedingLabel(CfgOf(P, Scope(c)), c.label)]>>)
        /\ UNCHANGED version
  BY DEF HandlePassThroughVertex
<1> DEFINE l == SucceedingLabel(CfgOf(P, Scope(c)), c.label)
           d == [c EXCEPT !.label = l]
<1>2. l \in DOMAIN CfgOf(P, Scope(c)).vertices
  <2>1. WellFormedVertex(P, Scope(c), c.label)
    BY <1>1, PopOK
  <2> QED BY <1>1, <2>1 DEF WellFormedVertex, Vertex, SucceedingLabel
<1>3. Pop(c) /\ Return(<<d>>) /\ version' \in [FlattenedInterface(P) -> Nat]
  BY <1>1 DEF ControlInv, EngineOK
<1>4. d = MoveTo(c, l)
  BY DEF MoveTo
<1> HIDE DEF l, d
<1>5. ContextOK(P, c) /\ c.cycle = cycle
  BY <1>3, PopOK
<1>6. ContextOK(P, d) /\ Scope(d) = Scope(c) /\ d.label = l /\ d.cycle = cycle
  BY <1>4, <1>5, MoveOK
<1>7. AtVertex(P, d)
  BY <1>2, <1>6 DEF AtVertex
<1> QED BY <1>3, <1>6, <1>7, ReturnOneOK

(* Assignments.                                                            *)
LEMMA VisitAssignmentInstructionOK ==
  ASSUME ControlInv, VisitAssignmentInstruction
  PROVE  ControlInv'
<1>1. PICK c \in explorer :
        /\ Pop(c)
        /\ Vertex(c).op = "assign"
        /\ LET x == Flatten(Scope(c), Vertex(c).var)
           IN  /\ version' = [version EXCEPT ![x] = @ + 1]
               /\ Return(<<Assign(P, version, c, x, Vertex(c).rhs,
                            Target(CfgOf(P, Scope(c)), c.label, "INTRAPROCEDURAL"))>>)
  BY DEF VisitAssignmentInstruction
<1> DEFINE x == Flatten(Scope(c), Vertex(c).var)
           l == Target(CfgOf(P, Scope(c)), c.label, "INTRAPROCEDURAL")
           d == Assign(P, version, c, x, Vertex(c).rhs, l)
<1>2. l \in DOMAIN CfgOf(P, Scope(c)).vertices
  <2>1. WellFormedVertex(P, Scope(c), c.label)
    BY <1>1, PopOK
  <2> QED BY <1>1, <2>1, TargetLeads DEF WellFormedVertex, Vertex
<1>3. version' = [version EXCEPT ![x] = version[x] + 1] /\ Return(<<d>>)
  BY <1>1
<1> HIDE DEF l, x
<1>4. version \in [FlattenedInterface(P) -> Nat]
  BY DEF ControlInv, EngineOK
<1>5. ContextOK(P, d) /\ Scope(d) = Scope(c) /\ d.label = l /\ d.cycle = cycle
  <2>1. ContextOK(P, c) /\ c.cycle = cycle
    BY <1>1, PopOK
  <2> QED BY <1>4, <2>1, AssignOK
<1> HIDE DEF d
<1>6. AtVertex(P, d)
  BY <1>2, <1>5 DEF AtVertex
<1>7. version' \in [FlattenedInterface(P) -> Nat] /\ Pop(c) /\ Return(<<d>>)
  BY <1>1, <1>3, <1>4, NextVersion
<1> QED BY <1>5, <1>6, <1>7, ReturnOneOK
(* The executor returns two contexts.                                      *)
LEMMA ReturnTwoOK ==
  ASSUME ControlInv, NEW c \in explorer, Pop(c), NEW d, NEW e, Return(<<d, e>>),
         version' \in [FlattenedInterface(P) -> Nat],
         ContextOK(P, d), AtVertex(P, d), d.cycle = cycle,
         ContextOK(P, e), AtVertex(P, e), e.cycle = cycle
  PROVE  ControlInv'
<1> DEFINE contexts == <<d, e>>
<1>1. IsSeq(contexts) /\ contexts # <<>> /\ RangeOf(contexts) = {d, e}
  BY ShortSeq
<1>2. Return(contexts)
  OBVIOUS
<1> HIDE DEF contexts
<1>3. \A f \in RangeOf(contexts) : ContextOK(P, f) /\ AtVertex(P, f)
  BY <1>1
<1>4. \A f \in RangeOf(contexts) : f.cycle = cycle
  BY <1>1
<1> QED BY <1>1, <1>2, <1>3, <1>4, ReturnOK, Zenon

(* Decisions.                                                              *)
LEMMA VisitIfInstructionOK ==
  ASSUME ControlInv, VisitIfInstruction
  PROVE  ControlInv'
<1> DEFINE Cond(c) == Encode(c, Vertex(c).cond)
           Branch(c, sign, type) ==
             [c EXCEPT !.label = Target(CfgOf(P, Scope(c)), c.label, type),
                       !.pc = PushPathConstraint(@, <<Cond(c), sign>>)]
<1>1. PICK c \in explorer :
        /\ Pop(c)
        /\ Vertex(c).op = "if"
        /\ \/ Return(<<Branch(c, FALSE, "FALSE_BRANCH")>>)
           \/ Return(<<Branch(c, TRUE, "TRUE_BRANCH")>>)
           \/ Return(<<Branch(c, TRUE, "TRUE_BRANCH"), Branch(c, FALSE, "FALSE_BRANCH")>>)
        /\ UNCHANGED version
  BY Zenon DEF VisitIfInstruction
<1>2. Pop(c) /\ version' \in [FlattenedInterface(P) -> Nat]
  BY <1>1 DEF ControlInv, EngineOK
<1>3. ContextOK(P, c) /\ c.cycle = cycle /\ WellFormedVertex(P, Scope(c), c.label)
  BY <1>2, PopOK
<1>4. ASSUME NEW sign, NEW type \in {"TRUE_BRANCH", "FALSE_BRANCH"},
             NEW d, d = Branch(c, sign, type)
      PROVE  ContextOK(P, d) /\ AtVertex(P, d) /\ d.cycle = cycle
  <2> DEFINE l == Target(CfgOf(P, Scope(c)), c.label, type)
             pc == PushPathConstraint(c.pc, <<Cond(c), sign>>)
  <2>1. l \in DOMAIN CfgOf(P, Scope(c)).vertices
    BY <1>1, <1>3, TargetLeads DEF WellFormedVertex, Vertex
  <2>2. d = MoveUnder(c, l, pc)
    BY <1>4, Zenon DEF MoveUnder
  <2> HIDE DEF l, pc
  <2>3. ContextOK(P, d) /\ Scope(d) = Scope(c) /\ d.label = l /\ d.cycle = c.cycle
    BY <1>3, <2>2, BranchOK
  <2> QED BY <1>3, <2>1, <2>3 DEF AtVertex
<1> DEFINE positive == Branch(c, TRUE, "TRUE_BRANCH")
           negative == Branch(c, FALSE, "FALSE_BRANCH")
<1>5. ContextOK(P, positive) /\ AtVertex(P, positive) /\ positive.cycle = cycle
  <2> HIDE DEF Branch
  <2> QED BY <1>4
<1>6. ContextOK(P, negative) /\ AtVertex(P, negative) /\ negative.cycle = cycle
  <2> HIDE DEF Branch
  <2> QED BY <1>4
<1>7. \/ Return(<<negative>>)
      \/ Return(<<positive>>)
      \/ Return(<<positive, negative>>)
  BY <1>1, Zenon
<1> HIDE DEF positive, negative
<1> QED BY <1>2, <1>5, <1>6, <1>7, ReturnOneOK, ReturnTwoOK

(* The exit of a function block.                                           *)
LEMMA HandleFunctionBlockExitVertexOK ==
  ASSUME ControlInv, HandleFunctionBlockExitVertex
  PROVE  ControlInv'
<1>1. PICK c \in explorer :
        /\ Pop(c)
        /\ CfgOf(P, Scope(c)).type = "FUNCTION_BLOCK"
        /\ Return(<<[c EXCEPT !.label = ReturnLabel(c),
                              !.stack = SubSeq(@, 1, Len(@) - 1)]>>)
        /\ UNCHANGED version
  BY Zenon DEF HandleFunctionBlockExitVertex
<1> DEFINE d == [c EXCEPT !.label = ReturnLabel(c), !.stack = SubSeq(@, 1, Len(@) - 1)]
<1>2. Pop(c) /\ CfgOf(P, Scope(c)).type = "FUNCTION_BLOCK"
      /\ version' \in [FlattenedInterface(P) -> Nat]
  BY <1>1 DEF ControlInv, EngineOK
<1>3. Return(<<d>>)
  BY <1>1, Zenon
<1>4. d = [c EXCEPT !.label = ReturnLabel(c), !.stack = SubSeq(@, 1, Len(@) - 1)]
  OBVIOUS
<1> HIDE DEF d
<1>5. ContextOK(P, c) /\ c.cycle = cycle /\ WellFormed(P)
  BY <1>2, PopOK
<1>6. Depth(c) > 1
  BY <1>2, <1>5, FramesOfContext
<1>7. ContextOK(P, d) /\ AtVertex(P, d) /\ d.cycle = cycle
  BY <1>4, <1>5, <1>6, PopFrameOK
<1> QED BY <1>2, <1>3, <1>7, ReturnOneOK

(* The exit of the program.                                                *)
LEMMA HandleProgramExitVertexOK ==
  ASSUME ControlInv, HandleProgramExitVertex
  PROVE  ControlInv'
<1>1. PICK c \in explorer :
        /\ Pop(c)
        /\ Vertex(c).type = "EXIT"
        /\ CfgOf(P, Scope(c)).type = "PROGRAM"
        /\ version' = [x \in DOMAIN version |-> 0]
        /\ Return(<<NextCycle(P, c)>>)
  BY DEF HandleProgramExitVertex
<1>2. version' \in [FlattenedInterface(P) -> Nat]
  BY <1>1 DEF ControlInv, EngineOK
<1>3. ContextOK(P, c) /\ c.cycle = cycle /\ WellFormed(P)
      /\ WellFormedVertex(P, Scope(c), c.label)
  BY <1>1, PopOK
<1>4. Depth(c) = 1 /\ Scope(c) = MainScope(P)
  BY <1>1, <1>3, FramesOfContext
<1>5. AtProgramExit(c)
  BY <1>1, <1>3, <1>4 DEF AtProgramExit, WellFormedVertex, Vertex, MainCfg
<1> DEFINE d == NextCycle(P, c)
<1>6. ContextOK(P, d) /\ AtVertex(P, d) /\ d.cycle = cycle + 1
  BY <1>3, <1>4, NextCycleOK
<1> HIDE DEF d
<1>7. Pop(c) /\ Return(<<d>>)
  BY <1>1 DEF d
<1> QED BY <1>2, <1>5, <1>6, <1>7, ReturnOneOK
(* Calls: a frame is pushed, and either the callee is executed or the      *)
(* summaries that apply are to be applied.                                 *)
LEMMA VisitCallInstructionOK ==
  ASSUME ControlInv, VisitCallInstruction
  PROVE  ControlInv'
<1> DEFINE Ret(c) == Target(CfgOf(P, Scope(c)), c.label, "CALL_TO_RETURN")
           Callee(c) == [c EXCEPT !.stack =
                           Append(@, [scope |-> Append(Scope(c), Vertex(c).instance),
                                      ret |-> Ret(c)])]
           Entry(c) == Target(CfgOf(P, Scope(c)), c.label, "CALL")
<1>1. PICK c \in explorer :
        /\ Pop(c)
        /\ Vertex(c).op = "call"
        /\ \/ Return(<<[Callee(c) EXCEPT !.label = Entry(c)]>>)
           \/ /\ FindApplicableSummaries(P, Callee(c)) # {}
              /\ held' = <<Callee(c)>>
              /\ todo' = FindApplicableSummaries(P, Callee(c))
              /\ covered' = c.label
              /\ phase' = "summarize"
              /\ UNCHANGED pending
        /\ UNCHANGED version
  BY Zenon DEF VisitCallInstruction
<1> DEFINE i == Vertex(c).instance
           r == Ret(c)
           callee == Callee(c)
           l == Entry(c)
           d == [callee EXCEPT !.label = l]
<1>2. Pop(c) /\ Vertex(c).op = "call" /\ version' \in [FlattenedInterface(P) -> Nat]
  BY <1>1, Zenon DEF ControlInv, EngineOK
<1>3. \/ Return(<<d>>)
      \/ /\ FindApplicableSummaries(P, callee) # {}
         /\ held' = <<callee>>
         /\ todo' = FindApplicableSummaries(P, callee)
         /\ covered' = c.label
         /\ phase' = "summarize"
         /\ UNCHANGED pending
  BY <1>1, Zenon
<1>4. callee = Enter(c, i, r)
  BY Zenon DEF Enter
<1>5. d = MoveTo(callee, l)
  BY Zenon DEF MoveTo
<1>6. /\ ContextOK(P, c) /\ c.cycle = cycle /\ WellFormed(P) /\ AtVertex(P, c)
      /\ WellFormedVertex(P, Scope(c), c.label) /\ Scope(c) \in DOMAIN P.scopes
  BY <1>2, PopOK
<1>7. /\ Append(Scope(c), i) \in DOMAIN P.scopes
      /\ l \in DOMAIN CfgOf(P, Append(Scope(c), i)).vertices
      /\ r \in DOMAIN CfgOf(P, Scope(c)).vertices
  BY <1>2, <1>6, TargetLeads DEF WellFormedVertex, Vertex
<1> HIDE DEF i, r, callee, l, d
<1>8. /\ ContextOK(P, callee) /\ Scope(callee) = Append(Scope(c), i)
      /\ Depth(callee) = Depth(c) + 1 /\ callee.cycle = cycle
  BY <1>4, <1>6, <1>7, PushFrameOK
<1>9. CASE Return(<<d>>)
  <2>1. ContextOK(P, d) /\ Scope(d) = Scope(callee) /\ d.label = l /\ d.cycle = cycle
    BY <1>5, <1>8, MoveOK
  <2>2. AtVertex(P, d)
    BY <1>7, <1>8, <2>1 DEF AtVertex
  <2> QED BY <1>2, <1>9, <2>1, <2>2, ReturnOneOK
<1>10. CASE /\ FindApplicableSummaries(P, callee) # {}
            /\ held' = <<callee>>
            /\ todo' = FindApplicableSummaries(P, callee)
            /\ covered' = c.label
            /\ phase' = "summarize"
            /\ UNCHANGED pending
  <2>1. /\ P' = P /\ phase = "step" /\ cycle' = cycle /\ cycle \in Nat /\ cycle < CycleBound
        /\ explorer' = explorer \ {c}
        /\ merger' = merger /\ InMerger' = InMerger /\ MergerIsEmpty' = MergerIsEmpty
        /\ pending = <<>> /\ succeeding = {} /\ succeeding' = {}
        /\ \A e \in explorer' : ~AtProgramExit(e)
    BY <1>2, PopOK
  <2>2. /\ pending' = <<>> /\ RangeOf(pending') = {} /\ RangeOf(held') = {callee}
        /\ held'[1] = callee /\ Len(held') = 1 /\ IsSeq(held') /\ IsSeq(pending')
    BY <1>10, <2>1, ShortSeq
  <2>3. Live' \subseteq Live \cup {callee}
    BY <2>1, <2>2 DEF Live
  <2>4. EngineOK'
    <3>1. phase' \in Phases
      BY <1>10 DEF Phases
    <3> QED BY <1>2, <2>1, <2>2, <3>1 DEF ControlInv, EngineOK, Pop
  <2>5. CoverageOK'
    <3>1. c.label \in Statements(P)
      BY <1>6, LabelIsStatement DEF AtVertex
    <3> QED BY <1>2, <1>10, <2>1, <3>1 DEF ControlInv, CoverageOK, Pop, coverageVars
  <2>6. ContextsOK'
    BY <1>8, <1>10, <2>1, <2>2, <2>3 DEF ControlInv, ContextsOK
  <2>7. CyclesOK'
    BY <1>8, <2>1, <2>2 DEF ControlInv, CyclesOK
  <2>8. PhasesOK'
    <3>1. Depth(callee) > 1
      BY <1>6, <1>8, FramesOfContext
    <3>2. todo' # {} /\ todo' \subseteq DOMAIN SummariesAt(P, callee)
      BY <1>10 DEF FindApplicableSummaries
    <3> QED BY <1>10, <2>1, <2>2, <3>1, <3>2 DEF PhasesOK
  <2>9. MergerOK'
    BY <2>1 DEF ControlInv, MergerOK
  <2>10. ExitOK'
    <3>1. \A e \in explorer' : ~(AtProgramExit(e)')
      BY <2>1 DEF AtProgramExit
    <3> QED BY <1>10, <2>1, <2>2, <3>1 DEF ExitOK
  <2> QED BY <2>4, <2>5, <2>6, <2>7, <2>8, <2>9, <2>10 DEF ControlInv
<1> QED BY <1>3, <1>9, <1>10

(* What a step along an edge covers is there to be covered.                *)
LEMMA BranchesTakenOK ==
  ASSUME NEW p, WellFormed(p), NEW s \in DOMAIN p.scopes, NEW l, NEW k
  PROVE  BranchesTaken(CfgOf(p, s), l, k) \subseteq Branches(p)
<1> DEFINE g == CfgOf(p, s)
<1>1. SUFFICES ASSUME NEW e \in g.edges, e.src = l,
                      e.type \in {"TRUE_BRANCH", "FALSE_BRANCH"}
               PROVE  <<l, e.type = "TRUE_BRANCH">> \in Branches(p)
  BY DEF BranchesTaken, OutgoingEdges
<1>2. /\ l \in DOMAIN g.vertices /\ g.vertices[l].op = "if"
      /\ p.scopes[s] \in DOMAIN p.cfgs /\ g = p.cfgs[p.scopes[s]]
  BY <1>1 DEF WellFormed, CfgOf
<1>3. l \in Statements(p)
  BY <1>2 DEF Statements
<1>4. (e.type = "TRUE_BRANCH") \in BOOLEAN
  BY Zenon
<1> DEFINE D == {j \in Statements(p) : \E n \in DOMAIN p.cfgs :
                   j \in DOMAIN p.cfgs[n].vertices /\ p.cfgs[n].vertices[j].op = "if"}
<1>5. l \in D
  BY <1>2, <1>3
<1>6. Branches(p) = D \X BOOLEAN
  BY Zenon DEF Branches
<1> HIDE DEF D
<1>7. ASSUME NEW b \in BOOLEAN PROVE <<l, b>> \in D \X BOOLEAN
  BY <1>5, Zenon
<1> QED BY <1>4, <1>6, <1>7, Zenon
(* The labels that a summary covers are statements of the callee.          *)
LEMMA SummarizedPathOK ==
  ASSUME NEW p, WellFormedSummaries(p), NEW c, NEW k \in DOMAIN SummariesAt(p, c),
         NEW from \in Statements(p),
         NEW path, path = <<from>> \o SummariesAt(p, c)[k].literals
  PROVE  /\ path \in Seq(Statements(p)) /\ Len(path) \in Nat \ {0}
         /\ DOMAIN path = 1 .. Len(path) /\ path[Len(path)] \in Statements(p)
<1> DEFINE f == p.scopes[Scope(c)]
           literals == SummariesAt(p, c)[k].literals
<1>1. f \in DOMAIN p.summaries /\ SummariesAt(p, c) = p.summaries[f] /\ k \in DOMAIN p.summaries[f]
  BY SummariesOfCallee
<1>2. f \in DOMAIN p.cfgs /\ literals \in Seq(DOMAIN p.cfgs[f].vertices)
  <2> HIDE DEF f
  <2> QED BY <1>1 DEF WellFormedSummaries
<1>3. DOMAIN p.cfgs[f].vertices \subseteq Statements(p)
  BY <1>2 DEF Statements
<1>4. literals \in Seq(Statements(p))
  <2> HIDE DEF f, literals
  <2> QED BY <1>2, <1>3, SeqMonotonic
<1>5. <<from>> \in Seq(Statements(p)) /\ Len(<<from>>) = 1
  OBVIOUS
<1> HIDE DEF literals
<1>6. path \in Seq(Statements(p)) /\ Len(path) = 1 + Len(literals)
  BY <1>4, <1>5, ConcatProperties DEF literals
<1>7. Len(path) \in Nat \ {0} /\ DOMAIN path = 1 .. Len(path)
  BY <1>4, <1>6
<1> QED BY <1>6, <1>7

(* A summary is applied.                                                   *)
LEMMA ApplyNextSummaryOK ==
  ASSUME ControlInv, ApplyNextSummary
  PROVE  ControlInv'
<1> DEFINE c == held[1]
           Summary(k) == SummariesAt(P, c)[k]
           Applied(k) == ApplySummary(P, version, c, Summary(k))
           Path(k) == <<covered>> \o Summary(k).literals
           Taken(k) == UNION {BranchesTaken(CfgOf(P, Scope(c)), Path(k)[i], Path(k)[i + 1]) :
                                i \in 1 .. Len(Summary(k).literals)}
           LeaveCall(d) == [d EXCEPT !.label = ReturnLabel(c),
                                     !.stack = SubSeq(@, 1, Len(@) - 1)]
<1>1. PICK k \in todo :
        /\ pending' = Append(pending, LeaveCall(Applied(k)))
        /\ version' = [x \in DOMAIN version |->
                         IF x \in WrittenVariables(Summary(k)) THEN Applied(k).ver[x]
                                                               ELSE version[x]]
        /\ statements' = statements \cup {Path(k)[i] : i \in DOMAIN Path(k)}
        /\ branches' = branches \cup Taken(k)
        /\ covered' = Path(k)[Len(Path(k))]
        /\ todo' = todo \ {k}
        /\ phase' = IF todo = {k} THEN "dispatch" ELSE phase
        /\ held' = IF todo = {k} THEN <<>> ELSE held
  BY Zenon DEF ApplyNextSummary
<1> DEFINE s == Summary(k)
           a == Applied(k)
           path == Path(k)
           d == LeaveCall(a)
<1>2. /\ pending' = Append(pending, d)
      /\ version' = [x \in DOMAIN version |->
                       IF x \in WrittenVariables(s) THEN a.ver[x] ELSE version[x]]
      /\ statements' = statements \cup {path[i] : i \in DOMAIN path}
      /\ branches' = branches \cup Taken(k)
      /\ covered' = path[Len(path)]
      /\ todo' = todo \ {k}
      /\ phase' = IF todo = {k} THEN "dispatch" ELSE phase
      /\ held' = IF todo = {k} THEN <<>> ELSE held
  BY <1>1, Zenon
<1>3. /\ P' = P /\ phase = "summarize" /\ cycle' = cycle /\ explorer' = explorer
      /\ merger' = merger /\ InMerger' = InMerger /\ MergerIsEmpty' = MergerIsEmpty
      /\ succeeding' = succeeding /\ prog' = prog /\ source' = source /\ timedOut' = timedOut
  BY DEF ApplyNextSummary, P, InMerger, MergerIsEmpty
<1>4. a = ApplySummary(P, version, c, SummariesAt(P, c)[k])
  OBVIOUS
<1>5. path = <<covered>> \o SummariesAt(P, c)[k].literals
  OBVIOUS
<1>6. d = [a EXCEPT !.label = ReturnLabel(c), !.stack = SubSeq(@, 1, Len(@) - 1)]
  BY Zenon
<1>7. Taken(k) \subseteq Branches(P)
  <2>1. Scope(c) \in DOMAIN P.scopes /\ WellFormed(P)
    <3>1. Len(held) = 1 /\ IsSeq(held) /\ c \in RangeOf(held)
      <4>1. Len(held) = 1 /\ IsSeq(held)
        BY <1>3 DEF ControlInv, PhasesOK, EngineOK
      <4>2. held # <<>>
        BY <4>1
      <4> QED BY <4>1, <4>2, NonemptySeq
    <3>2. ContextOK(P, c) /\ WellFormed(P)
      BY <3>1, ProgramOK DEF ControlInv, ContextsOK, Live
    <3> HIDE DEF c
    <3> QED BY <3>2, FramesOfContext
  <2> HIDE DEF c, Summary, Path
  <2> QED BY <2>1, BranchesTakenOK
<1> HIDE DEF s, a, path, d, Taken, Summary, Applied, Path, LeaveCall
<1>8. /\ WellFormed(P) /\ WellFormedSummaries(P) /\ version \in [FlattenedInterface(P) -> Nat]
      /\ covered \in Statements(P) /\ succeeding = {} /\ IsSeq(pending) /\ IsSeq(held)
      /\ Len(held) = 1 /\ held # <<>> /\ Depth(c) > 1
      /\ todo \subseteq DOMAIN SummariesAt(P, c)
      /\ \A e \in RangeOf(pending) : e.cycle = cycle
      /\ \A e \in explorer : ~AtProgramExit(e)
  BY <1>3, ProgramOK DEF ControlInv, EngineOK, CoverageOK, PhasesOK, ExitOK
<1>9. c \in RangeOf(held)
  BY <1>8, NonemptySeq
<1>10. ContextOK(P, c) /\ c.cycle = cycle
  BY <1>9 DEF ControlInv, ContextsOK, CyclesOK, Live
<1> HIDE DEF c
<1>11. /\ ContextOK(P, a) /\ Depth(a) = Depth(c) /\ a.cycle = cycle /\ a.stack = c.stack
       /\ a.ver \in [FlattenedInterface(P) -> Nat]
  <2>1. k \in DOMAIN SummariesAt(P, c)
    BY <1>8
  <2>2. ContextOK(P, a) /\ Depth(a) = Depth(c) /\ a.cycle = c.cycle /\ a.stack = c.stack
    BY <1>4, <1>8, <1>10, <2>1, ApplySummaryOK
  <2> QED BY <1>10, <2>2 DEF ContextOK
<1>12. ContextOK(P, d) /\ AtVertex(P, d) /\ d.cycle = cycle
  <2>1. ReturnLabel(a) = ReturnLabel(c)
    BY <1>11 DEF ReturnLabel
  <2>2. d = [a EXCEPT !.label = ReturnLabel(a), !.stack = SubSeq(@, 1, Len(@) - 1)]
    BY <1>6, <2>1, Zenon
  <2> QED BY <1>8, <1>11, <2>2, PopFrameOK
<1>13. /\ IsSeq(pending') /\ pending' # <<>>
       /\ RangeOf(pending') = RangeOf(pending) \cup {d}
  BY <1>2, <1>8, AppendSeq
<1>14. IsSeq(held') /\ RangeOf(held') \subseteq RangeOf(held)
  BY <1>2, <1>8, ShortSeq
<1>15. Live' \subseteq Live \cup {d}
  BY <1>3, <1>13, <1>14 DEF Live
<1>16. EngineOK'
  <2>1. version' \in [FlattenedInterface(P) -> Nat]
    BY <1>2, <1>8, <1>11
  <2>2. phase' \in {"dispatch", "summarize"} /\ phase' \in Phases
    BY <1>2, <1>3 DEF Phases
  <2>3. cycle < CycleBound
    BY <1>3 DEF ControlInv, EngineOK
  <2> QED BY <1>3, <1>13, <1>14, <2>1, <2>2, <2>3 DEF ControlInv, EngineOK
<1>17. CoverageOK'
  <2>1. /\ path \in Seq(Statements(P)) /\ DOMAIN path = 1 .. Len(path)
        /\ path[Len(path)] \in Statements(P)
    <3>1. k \in DOMAIN SummariesAt(P, c)
      BY <1>8
    <3> QED BY <1>5, <1>8, <3>1, SummarizedPathOK, ZenonT(60)
  <2>2. {path[i] : i \in DOMAIN path} \subseteq Statements(P)
    BY <2>1
  <2> QED BY <1>2, <1>3, <1>7, <2>1, <2>2 DEF ControlInv, CoverageOK
<1>18. ContextsOK'
  <2>1. \A e \in Live' : ContextOK(P, e)
    BY <1>12, <1>15 DEF ControlInv, ContextsOK
  <2>2. phase' # "summarize" => RangeOf(held') = {}
    BY <1>2, <1>3, ShortSeq
  <2> QED BY <1>3, <1>12, <1>13, <2>1, <2>2 DEF ControlInv, ContextsOK
<1>19. CyclesOK'
  BY <1>3, <1>12, <1>13, <1>14 DEF ControlInv, CyclesOK
<1>20. PhasesOK'
  <2>1. CASE todo = {k}
    BY <1>2, <2>1 DEF PhasesOK
  <2>2. CASE todo # {k}
    <3>1. phase' = "summarize" /\ held' = held /\ todo' # {} /\ todo' \subseteq todo
      BY <1>2, <1>3, <2>2
    <3>2. \A e \in RangeOf(pending') : e.cycle = cycle
      BY <1>8, <1>12, <1>13
    <3> QED BY <1>3, <1>8, <3>1, <3>2 DEF PhasesOK, c
  <2> QED BY <2>1, <2>2
<1>21. MergerOK'
  BY <1>3 DEF ControlInv, MergerOK
<1>22. ExitOK'
  <2>1. \A e \in explorer' : ~(AtProgramExit(e)')
    BY <1>3, <1>8 DEF AtProgramExit
  <2>2. \A e \in RangeOf(pending') : e.cycle = cycle'
    BY <1>3, <1>8, <1>12, <1>13
  <2>3. phase' # "merge" /\ succeeding' = {}
    BY <1>2, <1>3, <1>8
  <2> QED BY <2>1, <2>2, <2>3 DEF ExitOK
<1> QED BY <1>16, <1>17, <1>18, <1>19, <1>20, <1>21, <1>22 DEF ControlInv
(* A succeeding context goes to the merger, the explorer or the next cycle.*)
(* One at the exit of the program always goes to the merger.               *)
LEMMA DispatchOK ==
  ASSUME ControlInv, Dispatch
  PROVE  ControlInv'
<1> DEFINE c == Head(pending)
           taken == BranchesTaken(CfgOf(P, Scope(c)), source, c.label)
<1>1. /\ P' = P /\ phase = "dispatch" /\ cycle' = cycle /\ prog' = prog
      /\ version' = version /\ source' = source /\ covered' = covered
      /\ timedOut' = timedOut /\ held' = held /\ todo' = todo
      /\ pending # <<>> /\ pending' = Tail(pending)
      /\ phase' = IF pending' = <<>> THEN "step" ELSE "dispatch"
      /\ statements' = statements \cup {source}
      /\ branches' = branches \cup taken
  BY DEF Dispatch, P
<1>2. \/ /\ c.cycle = cycle /\ MergePoint(c) \in DOMAIN merger
         /\ merger' = [merger EXCEPT ![MergePoint(c)] = Append(@, c)]
         /\ explorer' = explorer /\ succeeding' = succeeding
      \/ /\ c.cycle = cycle /\ MergePoint(c) \notin DOMAIN merger
         /\ explorer' = explorer \cup {c}
         /\ merger' = merger /\ succeeding' = succeeding
      \/ /\ c.cycle # cycle
         /\ succeeding' = {c}
         /\ explorer' = explorer /\ merger' = merger
  BY Zenon DEF Dispatch, ReachedMergePoint
<1>3. /\ IsSeq(pending') /\ RangeOf(pending') \subseteq RangeOf(pending)
      /\ c \in RangeOf(pending) /\ Len(pending') = Len(pending) - 1
  BY <1>1, TailSeq DEF ControlInv, EngineOK
<1>4. /\ WellFormed(P) /\ held = <<>> /\ held' = <<>> /\ RangeOf(held') = {}
      /\ succeeding = {} /\ cycle \in Nat /\ cycle < CycleBound
      /\ \A d \in explorer : ~AtProgramExit(d)
  BY <1>1, ProgramOK, ShortSeq, CycleBoundAssumption DEF ControlInv, EngineOK, PhasesOK, ExitOK
<1>5. /\ ContextOK(P, c) /\ AtVertex(P, c) /\ c.cycle \in {cycle, cycle + 1}
      /\ \A d \in RangeOf(pending) : d.cycle \in {cycle, cycle + 1}
  BY <1>3 DEF ControlInv, ContextsOK, CyclesOK, Live
<1>6. Scope(c) \in DOMAIN P.scopes
  BY <1>4, <1>5, FramesOfContext
<1>7. CoverageOK'
  <2>1. taken \subseteq Branches(P)
    BY <1>4, <1>6, BranchesTakenOK
  <2> HIDE DEF taken
  <2> QED BY <1>1, <2>1 DEF ControlInv, CoverageOK
<1> HIDE DEF c, taken
<1>8. phase' \in {"step", "dispatch"} /\ phase' \in Phases
  BY <1>1 DEF Phases
<1>9. CASE /\ c.cycle = cycle /\ MergePoint(c) \in DOMAIN merger
           /\ merger' = [merger EXCEPT ![MergePoint(c)] = Append(@, c)]
           /\ explorer' = explorer /\ succeeding' = succeeding
  <2> DEFINE m == MergePoint(c)
  <2>1. /\ IsSeq(Append(merger[m], c))
        /\ RangeOf(Append(merger[m], c)) = RangeOf(merger[m]) \cup {c}
    BY <1>9, AppendSeq DEF ControlInv, EngineOK
  <2>2. /\ DOMAIN merger' = DOMAIN merger
        /\ \A k \in DOMAIN merger :
             merger'[k] = IF k = m THEN Append(merger[m], c) ELSE merger[k]
    BY <1>9
  <2>3. \A k \in DOMAIN merger : /\ IsSeq(merger'[k])
                                 /\ RangeOf(merger'[k]) \subseteq RangeOf(merger[k]) \cup {c}
                                 /\ k # m => merger'[k] = merger[k]
    BY <2>1, <2>2 DEF ControlInv, EngineOK
  <2>4. InMerger' \subseteq InMerger \cup {c}
    BY <2>2, <2>3 DEF InMerger
  <2>5. Live' \subseteq Live
    BY <1>3, <1>4, <1>9, <2>4 DEF Live
  <2>6. EngineOK'
    BY <1>1, <1>3, <1>4, <1>8, <2>2, <2>3, ShortSeq DEF ControlInv, EngineOK
  <2>7. ContextsOK'
    BY <1>1, <1>3, <1>4, <1>5, <1>9, <2>4, <2>5 DEF ControlInv, ContextsOK
  <2>8. CyclesOK'
    BY <1>1, <1>3, <1>4, <1>9, <2>4 DEF ControlInv, CyclesOK
  <2>9. PhasesOK'
    BY <1>1, <1>4, <1>8 DEF PhasesOK
  <2>10. MergerOK'
    <3>1. ASSUME NEW k \in DOMAIN merger, NEW d \in RangeOf(merger'[k])
          PROVE  MergePoint(d) = k
      BY <2>1, <2>2 DEF ControlInv, MergerOK
    <3> QED BY <2>2, <3>1 DEF MergerOK
  <2>11. ExitOK'
    <3>1. \A d \in explorer' : ~(AtProgramExit(d)')
      BY <1>1, <1>4, <1>9 DEF AtProgramExit
    <3>2. \A d \in RangeOf(pending') : d.cycle = cycle'
      <4>1. ASSUME NEW d \in RangeOf(pending'), d.cycle # cycle
            PROVE  FALSE
        <5>1. Len(pending) = 1
          BY <1>3, <4>1 DEF ControlInv, ExitOK
        <5>2. pending' = <<>>
          BY <1>3, <5>1 DEF IsSeq
        <5> QED BY <4>1, <5>2, ShortSeq
      <4> QED BY <1>1, <4>1
    <3> QED BY <1>4, <1>8, <1>9, <3>1, <3>2 DEF ExitOK
  <2> QED BY <1>7, <2>6, <2>7, <2>8, <2>9, <2>10, <2>11 DEF ControlInv
<1>10. CASE /\ c.cycle = cycle /\ MergePoint(c) \notin DOMAIN merger
            /\ explorer' = explorer \cup {c}
            /\ merger' = merger /\ succeeding' = succeeding
  <2>1. InMerger' = InMerger
    BY <1>10 DEF InMerger
  <2>2. Live' \subseteq Live
    BY <1>3, <1>4, <1>10, <2>1 DEF Live
  <2>3. EngineOK'
    BY <1>1, <1>3, <1>4, <1>8, <1>10, ShortSeq DEF ControlInv, EngineOK
  <2>4. ContextsOK'
    BY <1>1, <1>3, <1>4, <1>5, <1>10, <2>1, <2>2 DEF ControlInv, ContextsOK
  <2>5. CyclesOK'
    BY <1>1, <1>3, <1>4, <1>10, <2>1 DEF ControlInv, CyclesOK
  <2>6. PhasesOK' /\ MergerOK'
    BY <1>1, <1>4, <1>8, <1>10 DEF ControlInv, PhasesOK, MergerOK
  <2>7. ExitOK'
    <3>1. ~AtProgramExit(c)
      BY <1>4, <1>5, <1>10, AtProgramExitPoint, ExitIsMergePoint DEF ControlInv, EngineOK
    <3>2. \A d \in explorer' : ~(AtProgramExit(d)')
      BY <1>1, <1>4, <1>10, <3>1 DEF AtProgramExit
    <3>3. \A d \in RangeOf(pending') : d.cycle = cycle'
      <4>1. ASSUME NEW d \in RangeOf(pending'), d.cycle # cycle
            PROVE  FALSE
        <5>1. Len(pending) = 1
          BY <1>3, <4>1 DEF ControlInv, ExitOK
        <5>2. pending' = <<>>
          BY <1>3, <5>1 DEF IsSeq
        <5> QED BY <4>1, <5>2, ShortSeq
      <4> QED BY <1>1, <4>1
    <3> QED BY <1>4, <1>8, <1>10, <3>2, <3>3 DEF ExitOK
  <2> QED BY <1>7, <2>3, <2>4, <2>5, <2>6, <2>7 DEF ControlInv
<1>11. CASE /\ c.cycle # cycle
            /\ succeeding' = {c}
            /\ explorer' = explorer /\ merger' = merger
  <2>1. /\ explorer = {} /\ MergerIsEmpty /\ Len(pending) = 1 /\ c.cycle = cycle + 1
        /\ InMerger' = InMerger /\ MergerIsEmpty' = MergerIsEmpty
    BY <1>3, <1>5, <1>11 DEF ControlInv, ExitOK, InMerger, MergerIsEmpty
  <2>2. pending' = <<>> /\ RangeOf(pending') = {} /\ phase' = "step"
    <3>1. pending' = <<>>
      BY <1>3, <2>1 DEF IsSeq
    <3> QED BY <1>1, <3>1, ShortSeq
  <2>3. Live' \subseteq Live
    BY <1>3, <1>4, <1>11, <2>1, <2>2 DEF Live
  <2>4. EngineOK'
    BY <1>1, <1>3, <1>4, <1>8, <1>11, ShortSeq DEF ControlInv, EngineOK
  <2>5. ContextsOK'
    BY <1>1, <1>4, <1>5, <1>11, <2>1, <2>2, <2>3 DEF ControlInv, ContextsOK
  <2>6. CyclesOK'
    BY <1>1, <1>4, <1>11, <2>1, <2>2 DEF ControlInv, CyclesOK
  <2>7. PhasesOK' /\ MergerOK'
    BY <1>1, <1>4, <1>11, <2>2 DEF ControlInv, PhasesOK, MergerOK
  <2>8. ExitOK'
    BY <1>4, <1>11, <2>1, <2>2 DEF ExitOK
  <2> QED BY <1>7, <2>4, <2>5, <2>6, <2>7, <2>8 DEF ControlInv
<1> QED BY <1>2, <1>9, <1>10, <1>11 DEF c

(* Nothing changes.                                                        *)
LEMMA StutterOK ==
  ASSUME ControlInv, UNCHANGED vars
  PROVE  ControlInv'
<1>1. P' = P /\ MergerIsEmpty' = MergerIsEmpty /\ InMerger' = InMerger /\ Live' = Live
  BY DEF vars, contextVars, P, MergerIsEmpty, InMerger, Live
<1>2. EngineOK' /\ CoverageOK'
  BY <1>1 DEF ControlInv, vars, contextVars, coverageVars, EngineOK, CoverageOK
<1>3. ContextsOK' /\ CyclesOK' /\ MergerOK'
  BY <1>1 DEF ControlInv, vars, contextVars, ContextsOK, CyclesOK, MergerOK
<1>4. PhasesOK' /\ ExitOK'
  BY <1>1 DEF ControlInv, vars, contextVars, PhasesOK, ExitOK, AtProgramExit
<1> QED BY <1>2, <1>3, <1>4 DEF ControlInv

(* The invariant is inductive.                                             *)
LEMMA NextOK == ControlInv /\ [Next]_vars => ControlInv'
<1> SUFFICES ASSUME ControlInv, [Next]_vars PROVE ControlInv'
  OBVIOUS
<1>1. CASE TimeOut
  BY <1>1, TimeOutOK
<1>2. CASE RunLoop
  BY <1>2, RunLoopOK
<1>3. CASE EndOfStep
  BY <1>3, EndOfStepOK
<1>4. CASE LocalTermination
  BY <1>4, LocalTerminationOK
<1>5. CASE BeginMerge
  BY <1>5, BeginMergeOK
<1>6. CASE MergePair
  BY <1>6, MergePairOK
<1>7. CASE EndMerge
  BY <1>7, EndMergeOK
<1>8. CASE HandlePassThroughVertex
  BY <1>8, HandlePassThroughVertexOK
<1>9. CASE VisitAssignmentInstruction
  BY <1>9, VisitAssignmentInstructionOK
<1>10. CASE VisitIfInstruction
  BY <1>10, VisitIfInstructionOK
<1>11. CASE VisitCallInstruction
  BY <1>11, VisitCallInstructionOK
<1>12. CASE ApplyNextSummary
  BY <1>12, ApplyNextSummaryOK
<1>13. CASE HandleProgramExitVertex
  BY <1>13, HandleProgramExitVertexOK
<1>14. CASE HandleFunctionBlockExitVertex
  BY <1>14, HandleFunctionBlockExitVertexOK
<1>15. CASE Dispatch
  BY <1>15, DispatchOK
<1>16. CASE UNCHANGED vars
  BY <1>16, StutterOK
<1> QED BY <1>1, <1>2, <1>3, <1>4, <1>5, <1>6, <1>7, <1>8, <1>9, <1>10, <1>11,
           <1>12, <1>13, <1>14, <1>15, <1>16 DEF Next, EngineStep, Done

-----------------------------------------------------------------------------
(* What the invariant says about the engine.                               *)

(* The engine always satisfies the invariant.                              *)
THEOREM ControlInvHolds == Spec => []ControlInv
BY InitOK, NextOK, PTL DEF Spec

(* The invariant gives the types and frames of TypeOK.                     *)
LEMMA ControlTypeOK == ControlInv => TypeOK
<1> SUFFICES ASSUME ControlInv PROVE TypeOK
  OBVIOUS
<1>1. ASSUME NEW c \in Live
      PROVE  /\ c.stack # <<>>
             /\ c.stack[1] = [scope |-> MainScope(P), ret |-> MainCfg(P).entry]
             /\ c.cycle \in {cycle, cycle + 1}
             /\ c.ver \in [FlattenedInterface(P) -> Nat]
  <2>1. ContextOK(P, c)
    BY DEF ControlInv, ContextsOK
  <2>2. c.cycle \in {cycle, cycle + 1}
    BY DEF ControlInv, CyclesOK, Live
  <2> QED BY <2>1, <2>2 DEF ContextOK, StackOK, MainFrame
<1> QED BY <1>1 DEF ControlInv, EngineOK, CoverageOK, TypeOK

(* The context at the exit of the program is alone.                        *)
LEMMA ControlSole == ControlInv => SoleContextAtProgramExit
BY DEF ControlInv, ExitOK, AtProgramExit, SoleContextAtProgramExit

(* The engine's state and the frames of its contexts keep their types, and *)
(* coverage only ever records statements and branches that Explorer counts,*)
(* for every program, cycle bound and time-out.                            *)
THEOREM TypeCorrect == Spec => []TypeOK
BY ControlInvHolds, ControlTypeOK, PTL

(* Engine::step never overwrites its succeeding_cycle_context: the context *)
(* at the exit of the program is the only one that the engine still has.   *)
THEOREM SoleContext == Spec => []SoleContextAtProgramExit
BY ControlInvHolds, ControlSole, PTL
==========================================================================
