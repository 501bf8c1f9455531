---------------------------- MODULE LoopProofs ----------------------------
(***************************************************************************)
(* Proofs about the engines that share the exploration loop, for all       *)
(* programs, time-outs and cycle bounds.  First the steps of EngineLoop,   *)
(* then the actions of each engine, which are made of them.                *)
(***************************************************************************)
EXTENDS LoopCorrectness, ProgramProofs

-----------------------------------------------------------------------------
(* Steps of the loop.                                                      *)

(* The program that is executed is well-formed.                            *)
LEMMA ProgramOK ==
  ASSUME prog \in Programs
  PROVE  WellFormed(P) /\ WellFormedSummaries(P) /\ ReferencesResolve(P)
BY EngineCodeAssumption DEF P

(* What a step may do to the versions: they are numbers and do not fall.   *)
Grows(p, before, after) ==
  /\ after \in [FlattenedInterface(p) -> Nat]
  /\ \A x \in FlattenedInterface(p) : before[x] <= after[x]

(* A context stays as it is when the versions grow.                        *)
LEMMA ContextKept ==
  ASSUME NEW p, NEW v \in [FlattenedInterface(p) -> Nat], NEW w, Grows(p, v, w),
         NEW c, ContextOK(p, v, c)
  PROVE  ContextOK(p, w, c)
<1>1. ASSUME NEW n \in DOMAIN c.val
      PROVE  NameOK(p, w, c.cycle, n)
  <2>1. n \in FlattenedInterface(p) \X Nat \X Nat /\ n[3] <= c.cycle
        /\ (n[3] = c.cycle => n[2] <= v[n[1]])
    BY <1>1 DEF ContextOK, NameOK
  <2>2. n[1] \in FlattenedInterface(p) /\ n[2] \in Nat
    BY <2>1
  <2>3. v[n[1]] \in Nat /\ w[n[1]] \in Nat /\ v[n[1]] <= w[n[1]]
    BY <2>2 DEF Grows
  <2>4. n[2] <= v[n[1]] => n[2] <= w[n[1]]
    BY <2>2, <2>3
  <2> QED BY <2>1, <2>4 DEF NameOK
<1> QED BY <1>1 DEF ContextOK

(* The versions grow when nothing happens to them.                         *)
LEMMA GrowsNot ==
  ASSUME NEW p, NEW v \in [FlattenedInterface(p) -> Nat]
  PROVE  Grows(p, v, v)
<1>1. \A x \in FlattenedInterface(p) : v[x] \in Nat /\ v[x] <= v[x]
  OBVIOUS
<1> QED BY <1>1 DEF Grows

(* The contexts after a step that makes only good ones.                    *)
LEMMA ContextsKept ==
  ASSUME ContextsOK, prog' = prog, Grows(P, version, version'),
         NEW new, \A c \in new : ContextOK(P, version', c),
         Live' \subseteq Live \cup new
  PROVE  ContextsOK'
<1>1. P' = P
  BY DEF P
<1>2. version' \in [FlattenedInterface(P) -> Nat]
  BY DEF Grows
<1>3. \A c \in Live : ContextOK(P, version', c)
  BY ContextKept DEF ContextsOK
<1> QED BY <1>1, <1>2, <1>3 DEF ContextsOK

(* The engine stops.                                                       *)
LEMMA StopOK ==
  ASSUME ContextsOK, prog' = prog, Stopping', Grows(P, version, version'),
         NEW new, \A c \in new : ContextOK(P, version', c),
         Live' \subseteq Live \cup new
  PROVE  Inv'
BY ContextsKept DEF Inv

(* Nothing happens to the contexts: a time-out, the loop of Engine::run, or*)
(* no step at all.                                                         *)
LEMMA IdleOK ==
  ASSUME ContextsOK, ControlOK, prog' = prog, cycle' = cycle, UNCHANGED contextVars,
         todo' = todo, phase' = phase \/ (phase = "run" /\ phase' = "step")
  PROVE  Inv'
<1>1. /\ P' = P /\ MergerIsEmpty' = MergerIsEmpty /\ InMerger' = InMerger /\ Live' = Live
      /\ explorer' = explorer /\ merger' = merger /\ version' = version
      /\ succeeding' = succeeding /\ held' = held /\ pending' = pending
  BY DEF contextVars, P, MergerIsEmpty, InMerger, Live
<1>2. ContextsOK'
  BY <1>1 DEF ContextsOK
<1>3. EngineOK' /\ LabelsOK' /\ CyclesOK' /\ MergerOK'
  BY <1>1 DEF ControlOK, EngineOK, LabelsOK, CyclesOK, PhasesOK, MergerOK
<1>4. PhasesOK' /\ ExitOK'
  BY <1>1 DEF ControlOK, PhasesOK, ExitOK, AtProgramExit
<1> QED BY <1>2, <1>3, <1>4 DEF Inv, ControlOK

(* The next cycle.                                                         *)
LEMMA FinishStepOK ==
  ASSUME ContextsOK, ControlOK, succeeding # {}, FinishStep
  PROVE  Inv'
<1>1. P' = P /\ prog' = prog /\ version' = version /\ cycle' = cycle + 1
      /\ MergerIsEmpty' = MergerIsEmpty /\ InMerger' = InMerger /\ merger' = merger
      /\ MergerIsEmpty /\ held' = held /\ pending' = pending
      /\ held = <<>> /\ pending = <<>> /\ phase' = "run" /\ phase = "step"
      /\ explorer' = succeeding /\ succeeding' = {}
  BY DEF ControlOK, PhasesOK, FinishStep, P, MergerIsEmpty, InMerger
<1>2. InMerger = {} /\ RangeOf(held) = {} /\ RangeOf(pending) = {}
  BY <1>1, ShortSeq DEF InMerger, MergerIsEmpty
<1>3. Live' = succeeding /\ succeeding \subseteq Live
  BY <1>1, <1>2 DEF Live
<1>4. ContextsOK'
  BY <1>1, <1>3 DEF ContextsOK
<1>5. EngineOK' /\ LabelsOK'
  BY <1>1, <1>2 DEF ControlOK, EngineOK, LabelsOK
<1>6. CyclesOK'
  BY <1>1, <1>2 DEF ControlOK, CyclesOK
<1>7. PhasesOK' /\ MergerOK'
  BY <1>1 DEF ControlOK, PhasesOK, MergerOK
<1>8. ExitOK'
  BY <1>1, <1>2 DEF ControlOK, ExitOK
<1> QED BY <1>4, <1>5, <1>6, <1>7, <1>8 DEF Inv, ControlOK

(* A context at the exit of the program waits at one merge point.          *)
LEMMA AtProgramExitPoint ==
  ASSUME WellFormed(P), NEW c, StackOK(P, c.stack), AtProgramExit(c)
  PROVE  MergePoint(c) = <<MainScope(P), 1, MainCfg(P).exit, MainCfg(P).entry>>
BY FramesOfStack DEF AtProgramExit, MergePoint

(* The contexts of a merge point are merged; those at the exit of the      *)
(* program when there is no other merge point left.                        *)
LEMMA StartMergeOK ==
  ASSUME ContextsOK, ControlOK, StartMerge
  PROVE  Inv'
<1>0. PICK m \in DOMAIN merger :
        Eligible(m) /\ held' = merger[m] /\ merger' = [merger EXCEPT ![m] = <<>>]
  BY DEF StartMerge
<1>1. P' = P /\ prog' = prog /\ version' = version /\ cycle' = cycle
      /\ phase = "step" /\ phase' = "merge" /\ explorer = {} /\ explorer' = {}
      /\ held = <<>> /\ pending = <<>> /\ pending' = <<>> /\ succeeding' = succeeding
      /\ merger[m] # <<>>
  BY <1>0 DEF StartMerge, P, ControlOK, PhasesOK, Eligible
<1>2. WellFormed(P)
  BY ProgramOK DEF ContextsOK
<1>3. RangeOf(held') \subseteq InMerger /\ InMerger' \subseteq InMerger
      /\ RangeOf(pending) = {} /\ RangeOf(pending') = {} /\ RangeOf(held) = {}
  <2>1. \A k \in DOMAIN merger : RangeOf(merger'[k]) \subseteq RangeOf(merger[k])
    BY <1>0, ShortSeq
  <2>2. DOMAIN merger' = DOMAIN merger
    BY <1>0
  <2>3. RangeOf(held') \subseteq InMerger
    BY <1>0 DEF InMerger
  <2> QED BY <1>1, <2>1, <2>2, <2>3, ShortSeq DEF InMerger
<1>4. succeeding = {} /\ Live' \subseteq Live
  <2>1. ~MergerIsEmpty
    BY <1>0, <1>1 DEF MergerIsEmpty
  <2> QED BY <1>1, <1>3, <2>1 DEF Live, ControlOK, ExitOK
<1>5. EngineOK'
  <2>1. \A k \in DOMAIN merger' : IsSeq(merger'[k])
    BY <1>0, ShortSeq DEF ControlOK, EngineOK
  <2>2. IsSeq(held') /\ IsSeq(pending')
    BY <1>0, <1>1, ShortSeq DEF ControlOK, EngineOK
  <2>3. DOMAIN merger' = MergePoints(P)
    BY <1>0 DEF ControlOK, EngineOK
  <2> QED BY <1>1, <2>1, <2>2, <2>3 DEF ControlOK, EngineOK
<1>6. ContextsOK'
  BY <1>1, <1>4 DEF ContextsOK
<1>7. LabelsOK' /\ CyclesOK'
  BY <1>1, <1>3, <1>4 DEF ControlOK, LabelsOK, CyclesOK
<1>8. PhasesOK'
  BY <1>0, <1>1 DEF PhasesOK
<1>9. MergerOK'
  BY <1>0, ShortSeq DEF ControlOK, MergerOK
<1>10. ASSUME NEW c \in RangeOf(held')
       PROVE  MergePoint(c) = m /\ (AtProgramExit(c) => MergerIsEmpty')
  <2>1. MergePoint(c) = m
    BY <1>0 DEF ControlOK, MergerOK
  <2>2. SUFFICES ASSUME AtProgramExit(c) PROVE MergerIsEmpty'
    BY <2>1
  <2>3. StackOK(P, c.stack)
    BY <1>3 DEF ContextsOK, ContextOK, Live
  <2>4. m = <<MainScope(P), 1, MainCfg(P).exit, MainCfg(P).entry>>
    BY <1>2, <2>1, <2>2, <2>3, AtProgramExitPoint
  <2>5. ASSUME NEW k \in DOMAIN merger, merger[k] # <<>>
        PROVE  k = m
    <3>1. k \in MergePoints(P)
      BY DEF ControlOK, EngineOK
    <3>2. \/ m[2] > k[2]
          \/ m[2] = k[2] /\ m[4] < k[4]
          \/ m[2] = k[2] /\ m[4] = k[4] /\ m[3] <= k[3]
      BY <1>0, <2>5 DEF Eligible
    <3>3. m[2] = 1 /\ m[3] = MainCfg(P).exit /\ m[4] = MainCfg(P).entry
      BY <2>4
    <3>4. MainCfg(P).entry \in Nat /\ MainCfg(P).exit \in Nat
      BY <1>2 DEF WellFormed, WellFormedVertex, MainCfg
    <3>5. k[2] \in Nat /\ k = <<k[1], k[2], k[3], k[4]>>
      BY <1>2, <3>1 DEF MergePoints, WellFormed
    <3>6. k[2] <= 1
      BY <3>2, <3>3, <3>5
    <3>7. /\ k[1] = MainScope(P) /\ k[2] = 1 /\ k[4] = MainCfg(P).entry
          /\ k[3] \in Nat /\ k[3] <= MainCfg(P).exit
      BY <1>2, <3>1, <3>6, ExitIsLastMergePoint
    <3>8. k[3] = MainCfg(P).exit
      BY <3>2, <3>3, <3>4, <3>7
    <3> QED BY <2>4, <3>5, <3>7, <3>8
  <2> QED BY <1>0, <2>5 DEF MergerIsEmpty
<1>11. ExitOK'
  BY <1>1, <1>3, <1>4, <1>10 DEF ExitOK, AtProgramExit
<1> QED BY <1>5, <1>6, <1>7, <1>8, <1>9, <1>11 DEF Inv, ControlOK

(* Two contexts become one, which stays where the first one is.            *)
LEMMA MergeFirstTwoOK ==
  ASSUME ContextsOK, ControlOK, NEW d, MergeFirstTwo(d), ContextOK(P, version', d),
         d.stack = held[1].stack, d.label = held[1].label, d.cycle = held[1].cycle
  PROVE  Inv'
<1>1. P' = P /\ prog' = prog /\ cycle' = cycle
      /\ phase = "merge" /\ phase' = "merge" /\ explorer = {} /\ explorer' = {}
      /\ pending = <<>> /\ pending' = <<>> /\ succeeding' = succeeding /\ succeeding = {}
      /\ merger' = merger /\ InMerger' = InMerger /\ MergerIsEmpty' = MergerIsEmpty
      /\ IsSeq(held) /\ Len(held) > 1
      /\ version \in [FlattenedInterface(P) -> Nat]
  BY DEF MergeFirstTwo, P, ContextsOK, ControlOK, PhasesOK, EngineOK, ExitOK, InMerger, MergerIsEmpty
<1>2. /\ IsSeq(held') /\ held' # <<>> /\ RangeOf(held') \subseteq {d} \cup RangeOf(held)
      /\ held[1] \in RangeOf(held)
  <2>1. Replaces(held, d, held')
    BY DEF MergeFirstTwo, Replaces
  <2> QED BY <1>1, <2>1, ReplaceFirstTwo
<1>3. AtVertex(P, held[1]) /\ held[1].cycle = cycle
  BY <1>1, <1>2 DEF ControlOK, LabelsOK, CyclesOK
<1>4. AtVertex(P, d) /\ MergePoint(d) = MergePoint(held[1]) /\ d.cycle = cycle
      /\ (AtProgramExit(d) <=> AtProgramExit(held[1]))
  BY <1>3 DEF AtVertex, MergePoint, ReturnLabel, AtProgramExit, Scope, Depth
<1>5. Live' \subseteq Live \cup {d} /\ RangeOf(pending) = {} /\ RangeOf(pending') = {}
  BY <1>1, <1>2, ShortSeq DEF Live
<1>6. Grows(P, version, version')
  <2>1. version' = [x \in FlattenedInterface(P) |->
                      IF x \in VersionsDiffer(held[1], held[2]) THEN version[x] + 1 ELSE version[x]]
    BY <1>1 DEF MergeFirstTwo
  <2>2. \A x \in FlattenedInterface(P) :
          /\ version[x] \in Nat
          /\ version'[x] = version[x] + 1 \/ version'[x] = version[x]
    BY <1>1, <2>1
  <2>3. version' \in [FlattenedInterface(P) -> Nat]
    BY <1>1, <2>1
  <2>4. \A x \in FlattenedInterface(P) : version[x] <= version'[x]
    BY <2>2
  <2> QED BY <2>3, <2>4 DEF Grows
<1>7. ContextsOK'
  <2> DEFINE new == {d}
  <2>1. \A c \in new : ContextOK(P, version', c)
    OBVIOUS
  <2>2. Live' \subseteq Live \cup new
    BY <1>5
  <2> HIDE DEF new
  <2> QED BY <1>1, <1>6, <2>1, <2>2, ContextsKept
<1>8. EngineOK'
  BY <1>1, <1>2, ShortSeq DEF ControlOK, EngineOK
<1>9. LabelsOK' /\ CyclesOK'
  BY <1>1, <1>2, <1>4, <1>5 DEF ControlOK, LabelsOK, CyclesOK
<1>10. PhasesOK' /\ MergerOK'
  BY <1>1, <1>2 DEF ControlOK, PhasesOK, MergerOK
<1>11. ExitOK'
  BY <1>1, <1>2, <1>4, <1>5 DEF ControlOK, ExitOK, AtProgramExit
<1> QED BY <1>7, <1>8, <1>9, <1>10, <1>11 DEF Inv, ControlOK

(* The merged context goes back to the explorer.                           *)
LEMMA FinishMergeOK ==
  ASSUME ContextsOK, ControlOK, FinishMerge
  PROVE  Inv'
<1>1. P' = P /\ prog' = prog /\ cycle' = cycle /\ version' = version
      /\ phase = "merge" /\ phase' = "step" /\ explorer' = {held[1]}
      /\ pending = <<>> /\ pending' = <<>> /\ succeeding' = {} /\ succeeding = {}
      /\ merger' = merger /\ InMerger' = InMerger /\ MergerIsEmpty' = MergerIsEmpty
      /\ held' = <<>> /\ IsSeq(held) /\ held # <<>>
  BY DEF FinishMerge, P, ControlOK, PhasesOK, EngineOK, ExitOK, InMerger, MergerIsEmpty
<1>2. held[1] \in RangeOf(held) /\ RangeOf(held') = {} /\ RangeOf(pending') = {}
  BY <1>1, NonemptySeq, ShortSeq
<1>3. Live' \subseteq Live
  BY <1>1, <1>2 DEF Live
<1>4. EngineOK'
  BY <1>1, ShortSeq DEF ControlOK, EngineOK
<1>5. ContextsOK'
  BY <1>1, <1>3 DEF ContextsOK
<1>6. LabelsOK' /\ CyclesOK'
  BY <1>1, <1>2, <1>3 DEF ControlOK, LabelsOK, CyclesOK
<1>7. PhasesOK' /\ MergerOK'
  BY <1>1 DEF ControlOK, PhasesOK, MergerOK
<1>8. ExitOK'
  BY <1>1, <1>2 DEF ControlOK, ExitOK, AtProgramExit
<1> QED BY <1>4, <1>5, <1>6, <1>7, <1>8 DEF Inv, ControlOK

-----------------------------------------------------------------------------
(* Steps of the executor.                                                  *)

(* The context that is popped, and what is left without it.                *)
LEMMA PopOK ==
  ASSUME ContextsOK, ControlOK, NEW c \in explorer, Pop(c)
  PROVE  /\ P' = P /\ prog' = prog /\ phase = "step" /\ cycle' = cycle /\ cycle \in Nat
         /\ explorer' = explorer \ {c}
         /\ merger' = merger /\ InMerger' = InMerger /\ MergerIsEmpty' = MergerIsEmpty
         /\ held = <<>> /\ pending = <<>> /\ succeeding = {} /\ succeeding' = {}
         /\ WellFormed(P) /\ ContextOK(P, version, c) /\ AtVertex(P, c) /\ c.cycle = cycle
         /\ Scope(c) \in DOMAIN P.scopes /\ WellFormedVertex(P, Scope(c), c.label)
         /\ \A d \in explorer' : ~AtProgramExit(d)
         /\ AtProgramExit(c) => explorer' = {} /\ MergerIsEmpty
<1>1. P' = P /\ prog' = prog /\ phase = "step" /\ cycle' = cycle /\ explorer' = explorer \ {c}
      /\ merger' = merger /\ InMerger' = InMerger /\ MergerIsEmpty' = MergerIsEmpty
      /\ succeeding' = succeeding
  BY DEF Pop, P, InMerger, MergerIsEmpty
<1>2. held = <<>> /\ pending = <<>> /\ succeeding = {} /\ cycle \in Nat
  BY <1>1 DEF ControlOK, PhasesOK, ExitOK, EngineOK
<1>3. ContextOK(P, version, c) /\ AtVertex(P, c) /\ c.cycle = cycle
  BY DEF ContextsOK, ControlOK, LabelsOK, CyclesOK, Live
<1>4. WellFormed(P)
  BY ProgramOK DEF ContextsOK
<1>5. Scope(c) \in DOMAIN P.scopes /\ WellFormedVertex(P, Scope(c), c.label)
  BY <1>3, <1>4, FramesOfStack DEF AtVertex, WellFormed, ContextOK
<1>6. \A d \in explorer' : ~AtProgramExit(d)
  BY <1>1 DEF ControlOK, ExitOK
<1>7. AtProgramExit(c) => explorer' = {} /\ MergerIsEmpty
  BY <1>1 DEF ControlOK, ExitOK
<1> QED BY <1>1, <1>2, <1>3, <1>4, <1>5, <1>6, <1>7

(* A context that the loop can go on with.                                 *)
Goes(p, versions, d) == ContextOK(p, versions, d) /\ AtVertex(p, d)

(* The executor returns contexts of this cycle, or the exit of the program *)
(* was executed and it returns the one context of the next cycle.          *)
LEMMA ReturnOK ==
  ASSUME ContextsOK, ControlOK, NEW c \in explorer, Pop(c), NEW contexts, Return(contexts),
         IsSeq(contexts), version' \in [FlattenedInterface(P) -> Nat],
         \A d \in RangeOf(contexts) : Goes(P, version', d),
         \/ /\ Grows(P, version, version')
            /\ \A d \in RangeOf(contexts) : d.cycle = cycle
         \/ /\ AtProgramExit(c) /\ Len(contexts) = 1
            /\ \A d \in RangeOf(contexts) : d.cycle = cycle + 1
  PROVE  Inv'
<1>1. /\ P' = P /\ prog' = prog /\ phase = "step" /\ cycle' = cycle /\ cycle \in Nat
      /\ explorer' = explorer \ {c}
      /\ merger' = merger /\ InMerger' = InMerger /\ MergerIsEmpty' = MergerIsEmpty
      /\ held = <<>> /\ pending = <<>> /\ succeeding = {} /\ succeeding' = {}
      /\ \A d \in explorer' : ~AtProgramExit(d)
      /\ AtProgramExit(c) => explorer' = {} /\ MergerIsEmpty
  BY PopOK
<1>2. held' = <<>> /\ pending' = contexts /\ phase' = "dispatch"
      /\ RangeOf(held') = {} /\ RangeOf(pending') = RangeOf(contexts)
  BY <1>1, ShortSeq DEF Return
<1>3. Live' \subseteq Live \cup RangeOf(contexts)
  BY <1>1, <1>2 DEF Live
<1>4. \A d \in RangeOf(contexts) : ContextOK(P, version', d) /\ AtVertex(P, d)
  BY DEF Goes
<1>5. ContextsOK'
  <2>1. CASE Grows(P, version, version')
    BY <1>1, <1>3, <1>4, <2>1, ContextsKept
  <2>2. CASE AtProgramExit(c)
    <3>1. InMerger = {}
      BY <1>1, <2>2, ShortSeq DEF InMerger, MergerIsEmpty
    <3>2. Live' = RangeOf(contexts)
      BY <1>1, <1>2, <2>2, <3>1 DEF Live
    <3> QED BY <1>1, <1>4, <3>2 DEF ContextsOK
  <2> QED BY <2>1, <2>2
<1>6. EngineOK'
  BY <1>1, <1>2, ShortSeq DEF ControlOK, EngineOK
<1>7. LabelsOK' /\ CyclesOK'
  BY <1>1, <1>2, <1>4 DEF ControlOK, LabelsOK, CyclesOK
<1>8. PhasesOK' /\ MergerOK'
  BY <1>1, <1>2 DEF ControlOK, PhasesOK, MergerOK
<1>9. ExitOK'
  <2>1. \A d \in RangeOf(pending') : d.cycle # cycle' =>
          explorer' = {} /\ MergerIsEmpty' /\ held' = <<>> /\ Len(pending') = 1
    BY <1>1, <1>2
  <2>2. \A d \in explorer' : ~(AtProgramExit(d)')
    BY <1>1 DEF AtProgramExit
  <2> QED BY <1>1, <1>2, <2>1, <2>2 DEF ExitOK
<1> QED BY <1>5, <1>6, <1>7, <1>8, <1>9 DEF Inv, ControlOK

(* The executor returns one context.                                       *)
LEMMA ReturnOneOK ==
  ASSUME ContextsOK, ControlOK, NEW c \in explorer, Pop(c), NEW d, Return(<<d>>),
         Grows(P, version, version'), Goes(P, version', d), d.cycle = cycle
  PROVE  Inv'
<1> DEFINE contexts == <<d>>
<1>1. IsSeq(contexts) /\ RangeOf(contexts) = {d}
  BY ShortSeq
<1>2. Return(contexts)
  OBVIOUS
<1> HIDE DEF contexts
<1>3. \A e \in RangeOf(contexts) : Goes(P, version', e) /\ e.cycle = cycle
  BY <1>1
<1>4. version' \in [FlattenedInterface(P) -> Nat]
  BY DEF Grows
<1> QED BY <1>1, <1>2, <1>3, <1>4, ReturnOK

(* The one context of the next cycle.                                      *)
LEMMA ReturnNextOK ==
  ASSUME ContextsOK, ControlOK, NEW c \in explorer, Pop(c), NEW d, Return(<<d>>),
         version' \in [FlattenedInterface(P) -> Nat], Goes(P, version', d),
         AtProgramExit(c), d.cycle = cycle + 1
  PROVE  Inv'
<1> DEFINE contexts == <<d>>
<1>1. IsSeq(contexts) /\ RangeOf(contexts) = {d} /\ Len(contexts) = 1
  BY ShortSeq
<1>2. Return(contexts)
  OBVIOUS
<1> HIDE DEF contexts
<1>3. \A e \in RangeOf(contexts) : Goes(P, version', e) /\ e.cycle = cycle + 1
  BY <1>1
<1> QED BY <1>1, <1>2, <1>3, ReturnOK

(* A call has found summaries and holds the context that they apply to.    *)
LEMMA HoldOK ==
  ASSUME ContextsOK, ControlOK, NEW c \in explorer, Pop(c), version' = version,
         NEW d, held' = <<d>>, pending' = pending, phase' = "summarize",
         ContextOK(P, version, d), d.cycle = cycle, Depth(d) > 1,
         todo' # {}, todo' \subseteq DOMAIN SummariesAt(P, d)
  PROVE  Inv'
<1>1. /\ P' = P /\ prog' = prog /\ phase = "step" /\ cycle' = cycle /\ cycle \in Nat
      /\ explorer' = explorer \ {c}
      /\ merger' = merger /\ InMerger' = InMerger /\ MergerIsEmpty' = MergerIsEmpty
      /\ held = <<>> /\ pending = <<>> /\ succeeding = {} /\ succeeding' = {}
      /\ \A e \in explorer' : ~AtProgramExit(e)
  BY PopOK
<1>2. IsSeq(held') /\ RangeOf(held') = {d} /\ Len(held') = 1 /\ held'[1] = d
      /\ RangeOf(pending') = {}
  BY <1>1, ShortSeq
<1>3. Live' \subseteq Live \cup {d}
  BY <1>1, <1>2 DEF Live
<1>4. ContextsOK'
  <2>1. \A e \in Live' : ContextOK(P, version, e)
    BY <1>3 DEF ContextsOK
  <2> QED BY <1>1, <2>1 DEF ContextsOK
<1>5. EngineOK'
  BY <1>1, <1>2, ShortSeq DEF ControlOK, EngineOK
<1>6. LabelsOK' /\ CyclesOK'
  BY <1>1, <1>2 DEF ControlOK, LabelsOK, CyclesOK
<1>7. PhasesOK'
  BY <1>1, <1>2 DEF PhasesOK
<1>8. MergerOK'
  BY <1>1 DEF ControlOK, MergerOK
<1>9. ExitOK'
  <2>1. \A e \in explorer' : ~(AtProgramExit(e)')
    BY <1>1 DEF AtProgramExit
  <2> QED BY <1>1, <1>2, <2>1 DEF ExitOK
<1> QED BY <1>4, <1>5, <1>6, <1>7, <1>8, <1>9 DEF Inv, ControlOK

(* A summary has been applied to the held context.                         *)
LEMMA AppliedOK ==
  ASSUME ContextsOK, ControlOK, phase = "summarize", NEW k \in todo, NEW d,
         UNCHANGED <<prog, cycle, explorer, merger, succeeding>>,
         pending' = Append(pending, d), todo' = todo \ {k},
         held' = (IF todo = {k} THEN <<>> ELSE held),
         phase' = (IF todo = {k} THEN "dispatch" ELSE phase) \/ phase' = "aborted",
         Grows(P, version, version'), Goes(P, version', d), d.cycle = cycle
  PROVE  Inv'
<1>1. /\ P' = P /\ prog' = prog /\ cycle' = cycle /\ explorer' = explorer
      /\ merger' = merger /\ InMerger' = InMerger /\ MergerIsEmpty' = MergerIsEmpty
      /\ succeeding = {} /\ succeeding' = {} /\ IsSeq(held) /\ IsSeq(pending)
      /\ \A e \in explorer : ~AtProgramExit(e)
      /\ \A e \in RangeOf(pending) : e.cycle = cycle
  BY DEF P, InMerger, MergerIsEmpty, ControlOK, EngineOK, PhasesOK, ExitOK
<1>2. IsSeq(pending') /\ RangeOf(pending') = RangeOf(pending) \cup {d}
  BY <1>1, AppendSeq
<1>3. IsSeq(held') /\ RangeOf(held') \subseteq RangeOf(held)
  BY <1>1, ShortSeq
<1>4. Live' \subseteq Live \cup {d}
  BY <1>1, <1>2, <1>3 DEF Live
<1>5. ContextsOK'
  <2> DEFINE new == {d}
  <2>1. \A e \in new : ContextOK(P, version', e)
    BY DEF Goes
  <2>2. Live' \subseteq Live \cup new
    BY <1>4
  <2> HIDE DEF new
  <2> QED BY <1>1, <2>1, <2>2, ContextsKept
<1>6. CASE phase' = "aborted"
  BY <1>5, <1>6 DEF Inv, Stopping
<1>7. CASE phase' = IF todo = {k} THEN "dispatch" ELSE phase
  <2>1. EngineOK'
    BY <1>1, <1>2, <1>3 DEF ControlOK, EngineOK
  <2>2. phase' # "summarize" => RangeOf(held') = {}
    BY <1>7, ShortSeq
  <2>3. LabelsOK' /\ CyclesOK'
    BY <1>1, <1>2, <1>3, <2>2 DEF ControlOK, LabelsOK, CyclesOK, Goes
  <2>4. PhasesOK'
    <3>1. CASE todo = {k}
      BY <1>7, <3>1 DEF PhasesOK
    <3>2. CASE todo # {k}
      <4>1. phase' = "summarize" /\ held' = held /\ todo' # {} /\ todo' \subseteq todo
        BY <1>7, <3>2
      <4>2. \A e \in RangeOf(pending') : e.cycle = cycle
        BY <1>1, <1>2
      <4> QED BY <1>1, <4>1, <4>2 DEF ControlOK, PhasesOK
    <3> QED BY <3>1, <3>2
  <2>5. MergerOK'
    BY <1>1 DEF ControlOK, MergerOK
  <2>6. ExitOK'
    <3>1. \A e \in explorer' : ~(AtProgramExit(e)')
      BY <1>1 DEF AtProgramExit
    <3>2. \A e \in RangeOf(pending') : e.cycle = cycle'
      BY <1>1, <1>2
    <3>3. phase' # "merge"
      BY <1>7
    <3> QED BY <1>1, <3>1, <3>2, <3>3 DEF ExitOK
  <2> QED BY <1>5, <2>1, <2>3, <2>4, <2>5, <2>6 DEF Inv, ControlOK
<1> QED BY <1>6, <1>7

(* A succeeding context goes to the merger, the explorer or the next cycle.*)
(* One at the exit of the program always goes to the merger.               *)
LEMMA DispatchHeadOK ==
  ASSUME ContextsOK, ControlOK, DispatchHead(TRUE)
  PROVE  Inv'
<1> DEFINE c == Head(pending)
<1>1. /\ P' = P /\ prog' = prog /\ phase = "dispatch" /\ cycle' = cycle
      /\ version' = version /\ held' = held /\ todo' = todo
      /\ pending # <<>> /\ pending' = Tail(pending)
      /\ phase' = IF pending' = <<>> THEN "step" ELSE "dispatch"
  BY DEF DispatchHead, P
<1>2. \/ /\ c.cycle = cycle /\ MergePoint(c) \in DOMAIN merger
         /\ merger' = [merger EXCEPT ![MergePoint(c)] = Append(@, c)]
         /\ explorer' = explorer /\ succeeding' = succeeding
      \/ /\ c.cycle = cycle /\ MergePoint(c) \notin DOMAIN merger
         /\ explorer' = explorer \cup {c}
         /\ merger' = merger /\ succeeding' = succeeding
      \/ /\ c.cycle # cycle
         /\ succeeding' = {c}
         /\ explorer' = explorer /\ merger' = merger
  BY Zenon DEF DispatchHead, ReachedMergePoint
<1>3. /\ IsSeq(pending') /\ RangeOf(pending') \subseteq RangeOf(pending)
      /\ c \in RangeOf(pending) /\ Len(pending') = Len(pending) - 1
  BY <1>1, TailSeq DEF ControlOK, EngineOK
<1>4. /\ WellFormed(P) /\ held = <<>> /\ held' = <<>> /\ RangeOf(held') = {}
      /\ succeeding = {} /\ cycle \in Nat
      /\ \A d \in explorer : ~AtProgramExit(d)
  BY <1>1, ProgramOK, ShortSeq DEF ContextsOK, ControlOK, EngineOK, PhasesOK, ExitOK
<1>5. /\ ContextOK(P, version, c) /\ AtVertex(P, c) /\ c.cycle \in {cycle, cycle + 1}
      /\ \A d \in RangeOf(pending) : d.cycle \in {cycle, cycle + 1}
  BY <1>3 DEF ContextsOK, ControlOK, LabelsOK, CyclesOK, Live
<1> HIDE DEF c
<1>6. phase' \in {"step", "dispatch"}
  BY <1>1
<1>7. ASSUME Live' \subseteq Live PROVE ContextsOK'
  BY <1>1, <1>7 DEF ContextsOK
<1>8. ASSUME c.cycle = cycle
      PROVE  \A d \in RangeOf(pending') : d.cycle = cycle'
  <2>1. ASSUME NEW d \in RangeOf(pending'), d.cycle # cycle
        PROVE  FALSE
    <3>1. Len(pending) = 1
      BY <1>3, <2>1 DEF ControlOK, ExitOK
    <3>2. pending' = <<>>
      BY <1>3, <3>1 DEF IsSeq
    <3> QED BY <2>1, <3>2, ShortSeq
  <2> QED BY <1>1, <2>1
<1>9. CASE /\ c.cycle = cycle /\ MergePoint(c) \in DOMAIN merger
           /\ merger' = [merger EXCEPT ![MergePoint(c)] = Append(@, c)]
           /\ explorer' = explorer /\ succeeding' = succeeding
  <2> DEFINE m == MergePoint(c)
  <2>1. /\ IsSeq(Append(merger[m], c))
        /\ RangeOf(Append(merger[m], c)) = RangeOf(merger[m]) \cup {c}
    BY <1>9, AppendSeq DEF ControlOK, EngineOK
  <2>2. /\ DOMAIN merger' = DOMAIN merger
        /\ \A k \in DOMAIN merger :
             merger'[k] = IF k = m THEN Append(merger[m], c) ELSE merger[k]
    BY <1>9
  <2>3. \A k \in DOMAIN merger : /\ IsSeq(merger'[k])
                                 /\ RangeOf(merger'[k]) \subseteq RangeOf(merger[k]) \cup {c}
                                 /\ k # m => merger'[k] = merger[k]
    BY <2>1, <2>2 DEF ControlOK, EngineOK
  <2>4. InMerger' \subseteq InMerger \cup {c}
    BY <2>2, <2>3 DEF InMerger
  <2>5. Live' \subseteq Live
    BY <1>3, <1>4, <1>9, <2>4 DEF Live
  <2>6. EngineOK'
    BY <1>1, <1>3, <1>4, <2>2, <2>3, ShortSeq DEF ControlOK, EngineOK
  <2>7. LabelsOK'
    BY <1>1, <1>3, <1>4, <1>5, <1>9, <2>4 DEF ControlOK, LabelsOK
  <2>8. CyclesOK'
    BY <1>1, <1>3, <1>4, <1>9, <2>4 DEF ControlOK, CyclesOK
  <2>9. PhasesOK'
    BY <1>1, <1>4, <1>6 DEF PhasesOK
  <2>10. MergerOK'
    <3>1. ASSUME NEW k \in DOMAIN merger, NEW d \in RangeOf(merger'[k])
          PROVE  MergePoint(d) = k
      BY <2>1, <2>2 DEF ControlOK, MergerOK
    <3> QED BY <2>2, <3>1 DEF MergerOK
  <2>11. ExitOK'
    <3>1. \A d \in explorer' : ~(AtProgramExit(d)')
      BY <1>1, <1>4, <1>9 DEF AtProgramExit
    <3> QED BY <1>4, <1>6, <1>8, <1>9, <3>1 DEF ExitOK
  <2> QED BY <1>7, <2>5, <2>6, <2>7, <2>8, <2>9, <2>10, <2>11 DEF Inv, ControlOK
<1>10. CASE /\ c.cycle = cycle /\ MergePoint(c) \notin DOMAIN merger
            /\ explorer' = explorer \cup {c}
            /\ merger' = merger /\ succeeding' = succeeding
  <2>1. InMerger' = InMerger
    BY <1>10 DEF InMerger
  <2>2. Live' \subseteq Live
    BY <1>3, <1>4, <1>10, <2>1 DEF Live
  <2>3. EngineOK'
    BY <1>1, <1>3, <1>4, <1>10, ShortSeq DEF ControlOK, EngineOK
  <2>4. LabelsOK'
    BY <1>1, <1>3, <1>4, <1>5, <1>10, <2>1 DEF ControlOK, LabelsOK
  <2>5. CyclesOK'
    BY <1>1, <1>3, <1>4, <1>10, <2>1 DEF ControlOK, CyclesOK
  <2>6. PhasesOK' /\ MergerOK'
    BY <1>1, <1>4, <1>6, <1>10 DEF ControlOK, PhasesOK, MergerOK
  <2>7. ExitOK'
    <3>1. ~AtProgramExit(c)
      BY <1>4, <1>5, <1>10, AtProgramExitPoint, ExitIsMergePoint
         DEF ControlOK, EngineOK, ContextOK
    <3>2. \A d \in explorer' : ~(AtProgramExit(d)')
      BY <1>1, <1>4, <1>10, <3>1 DEF AtProgramExit
    <3> QED BY <1>4, <1>6, <1>8, <1>10, <3>2 DEF ExitOK
  <2> QED BY <1>7, <2>2, <2>3, <2>4, <2>5, <2>6, <2>7 DEF Inv, ControlOK
<1>11. CASE /\ c.cycle # cycle
            /\ succeeding' = {c}
            /\ explorer' = explorer /\ merger' = merger
  <2>1. /\ explorer = {} /\ MergerIsEmpty /\ Len(pending) = 1 /\ c.cycle = cycle + 1
        /\ InMerger' = InMerger /\ MergerIsEmpty' = MergerIsEmpty
    BY <1>3, <1>5, <1>11 DEF ControlOK, ExitOK, InMerger, MergerIsEmpty
  <2>2. pending' = <<>> /\ RangeOf(pending') = {} /\ phase' = "step"
    <3>1. pending' = <<>>
      BY <1>3, <2>1 DEF IsSeq
    <3> QED BY <1>1, <3>1, ShortSeq
  <2>3. Live' \subseteq Live
    BY <1>3, <1>4, <1>11, <2>1, <2>2 DEF Live
  <2>4. EngineOK'
    BY <1>1, <1>3, <1>4, <1>11, ShortSeq DEF ControlOK, EngineOK
  <2>5. LabelsOK'
    BY <1>1, <1>4, <1>5, <1>11, <2>1, <2>2 DEF ControlOK, LabelsOK
  <2>6. CyclesOK'
    BY <1>1, <1>4, <1>11, <2>1, <2>2 DEF ControlOK, CyclesOK
  <2>7. PhasesOK' /\ MergerOK'
    BY <1>1, <1>4, <1>11, <2>2 DEF ControlOK, PhasesOK, MergerOK
  <2>8. ExitOK'
    BY <1>4, <1>11, <2>1, <2>2 DEF ExitOK
  <2> QED BY <1>7, <2>3, <2>4, <2>5, <2>6, <2>7, <2>8 DEF Inv, ControlOK
<1> QED BY <1>2, <1>9, <1>10, <1>11

-----------------------------------------------------------------------------
(* What the operations on contexts leave of them, whatever values they     *)
(* compute: c is the context before and d the one after.                   *)

Fields(d) ==
  /\ d = [f \in DOMAIN d |-> d[f]]
  /\ {"cycle", "label", "stack", "val", "pc", "ver"} \subseteq DOMAIN d

Like(c, d) ==
  Fields(d) /\ d.cycle = c.cycle /\ d.stack = c.stack /\ DOMAIN d.ver = DOMAIN c.ver

(* It goes to another label, under another path constraint.                *)
Moved(c, d) == Like(c, d) /\ DOMAIN d.val = DOMAIN c.val

(* A variable gets its next version.                                       *)
Wrote(versions, c, x, d) ==
  Like(c, d) /\ DOMAIN d.val = DOMAIN c.val \cup {<<x, versions[x] + 1, c.cycle>>}

(* It is joined with b.                                                    *)
Joined(versions, c, b, d) ==
  /\ Like(c, d) /\ d.label = c.label
  /\ DOMAIN d.val = DOMAIN c.val \cup DOMAIN b.val
                      \cup {<<x, versions[x] + 1, c.cycle>> : x \in VersionsDiffer(c, b)}

(* It crosses the exit of the program.                                     *)
Advanced(p, c, d) ==
  /\ Fields(d) /\ d.stack = c.stack /\ d.label = ReturnLabel(c)
  /\ d.cycle = c.cycle + 1 /\ DOMAIN d.ver = FlattenedInterface(p)
  /\ DOMAIN d.val = DOMAIN c.val \cup {<<x, 0, c.cycle + 1>> : x \in FlattenedInterface(p)}

(* It enters and leaves a function block.                                  *)
Entered(c, i, r, d) ==
  /\ Fields(d) /\ Pushed(c, i, r, d) /\ d.cycle = c.cycle
  /\ DOMAIN d.ver = DOMAIN c.ver /\ DOMAIN d.val = DOMAIN c.val

Exited(c, d) ==
  /\ Fields(d) /\ d.label = ReturnLabel(c) /\ d.stack = SubSeq(c.stack, 1, Depth(c) - 1)
  /\ d.cycle = c.cycle /\ DOMAIN d.ver = DOMAIN c.ver /\ DOMAIN d.val = DOMAIN c.val

(* A summary is applied to it.                                             *)
Summarized(versions, c, s, d) ==
  /\ Like(c, d) /\ d.label = c.label
  /\ DOMAIN d.val = DOMAIN c.val \cup
       {<<n[1], n[2] + versions[n[1]] + 1, c.cycle>> : n \in WrittenNames(s)}
  /\ \A x \in DOMAIN c.ver \cap WrittenVariables(s) :
       d.ver[x] = versions[x] + 1 + HighestVersion(s, x)

(* The versions of a context are those of its stack and cycle.             *)
LEMMA LikeOK ==
  ASSUME NEW p, NEW v, NEW c, ContextOK(p, v, c), NEW d, Like(c, d), NEW w,
         \A n \in DOMAIN d.val : NameOK(p, w, c.cycle, n)
  PROVE  /\ ContextOK(p, w, d) /\ d.cycle = c.cycle
         /\ Scope(d) = Scope(c) /\ Depth(d) = Depth(c)
BY DEF ContextOK, Like, Fields, Scope, Depth

(* Moving on.                                                              *)
LEMMA MovedOK ==
  ASSUME NEW p, NEW v, NEW c, ContextOK(p, v, c), NEW d, Moved(c, d)
  PROVE  /\ ContextOK(p, v, d) /\ d.cycle = c.cycle
         /\ Scope(d) = Scope(c) /\ Depth(d) = Depth(c)
<1>1. Like(c, d) /\ \A n \in DOMAIN d.val : NameOK(p, v, c.cycle, n)
  BY DEF Moved, ContextOK
<1> QED BY <1>1, LikeOK

(* The next versions of some variables, which the executor has given out.  *)
LEMMA NextNameOK ==
  ASSUME NEW p, NEW w \in [FlattenedInterface(p) -> Nat], NEW x \in FlattenedInterface(p),
         NEW i \in Nat, i <= w[x], NEW k \in Nat
  PROVE  NameOK(p, w, k, <<x, i, k>>)
<1> DEFINE n == <<x, i, k>>
<1>1. n \in FlattenedInterface(p) \X Nat \X Nat
  OBVIOUS
<1>2. n[1] = x /\ n[2] = i /\ n[3] = k
  OBVIOUS
<1>3. k <= k
  OBVIOUS
<1> HIDE DEF n
<1>4. NameOK(p, w, k, n)
  BY <1>1, <1>2, <1>3, Zenon DEF NameOK
<1> QED BY <1>4 DEF n

(* Adding one to some of the versions.                                     *)
LEMMA Raised ==
  ASSUME NEW p, NEW v \in [FlattenedInterface(p) -> Nat], NEW X, NEW w,
         w = [x \in DOMAIN v |-> IF x \in X THEN v[x] + 1 ELSE v[x]]
  PROVE  /\ Grows(p, v, w)
         /\ \A x \in FlattenedInterface(p) : x \in X => w[x] = v[x] + 1
<1>1. w = [x \in FlattenedInterface(p) |-> IF x \in X THEN v[x] + 1 ELSE v[x]]
  OBVIOUS
<1>2. \A x \in FlattenedInterface(p) :
        /\ v[x] \in Nat
        /\ w[x] = v[x] + 1 \/ (w[x] = v[x] /\ x \notin X)
  BY <1>1
<1>3. w \in [FlattenedInterface(p) -> Nat]
  BY <1>1
<1>4. \A x \in FlattenedInterface(p) : v[x] <= w[x]
  BY <1>2
<1> QED BY <1>2, <1>3, <1>4 DEF Grows

(* The executor gives out the next version of x.                           *)
GaveOut(before, x, after) == after = [before EXCEPT ![x] = @ + 1]

(* A write.                                                                *)
LEMMA WroteOK ==
  ASSUME NEW p, NEW v \in [FlattenedInterface(p) -> Nat], NEW x \in FlattenedInterface(p),
         NEW w, GaveOut(v, x, w),
         NEW c, ContextOK(p, v, c), NEW d, Wrote(v, c, x, d)
  PROVE  /\ ContextOK(p, w, d) /\ d.cycle = c.cycle /\ Grows(p, v, w)
         /\ Scope(d) = Scope(c) /\ Depth(d) = Depth(c)
<1>1. Grows(p, v, w) /\ w[x] = v[x] + 1 /\ v[x] + 1 \in Nat
  <2> DEFINE X == {x}
  <2>1. w = [y \in DOMAIN v |-> IF y \in X THEN v[y] + 1 ELSE v[y]]
    BY DEF GaveOut
  <2>2. x \in X /\ v[x] \in Nat
    OBVIOUS
  <2> HIDE DEF X
  <2>3. Grows(p, v, w) /\ w[x] = v[x] + 1
    BY <2>1, <2>2, Raised
  <2> QED BY <2>2, <2>3
<1>2. ContextOK(p, w, c) /\ c.cycle \in Nat
  <2>1. ContextOK(p, w, c)
    BY <1>1, ContextKept, Zenon
  <2> QED BY <2>1 DEF ContextOK
<1>3. NameOK(p, w, c.cycle, <<x, v[x] + 1, c.cycle>>)
  <2>1. w \in [FlattenedInterface(p) -> Nat] /\ v[x] + 1 <= w[x]
    BY <1>1 DEF Grows
  <2> QED BY <1>1, <1>2, <2>1, NextNameOK
<1>4. \A n \in DOMAIN d.val : NameOK(p, w, c.cycle, n)
  BY <1>2, <1>3 DEF Wrote, ContextOK
<1>5. Like(c, d)
  BY DEF Wrote
<1>6. ContextOK(p, w, c)
  BY <1>2
<1>7. /\ ContextOK(p, w, d) /\ d.cycle = c.cycle
      /\ Scope(d) = Scope(c) /\ Depth(d) = Depth(c)
  BY ONLY <1>4, <1>5, <1>6, LikeOK
<1> QED BY <1>1, <1>7

(* A join.                                                                 *)
LEMMA JoinedOK ==
  ASSUME NEW p, NEW v \in [FlattenedInterface(p) -> Nat],
         NEW c, ContextOK(p, v, c), NEW b, ContextOK(p, v, b), b.cycle = c.cycle,
         NEW w, w = [x \in DOMAIN v |-> IF x \in VersionsDiffer(c, b) THEN v[x] + 1 ELSE v[x]],
         NEW d, Joined(v, c, b, d)
  PROVE  ContextOK(p, w, d) /\ d.cycle = c.cycle /\ d.stack = c.stack /\ d.label = c.label
<1>1. Grows(p, v, w)
      /\ \A x \in FlattenedInterface(p) : x \in VersionsDiffer(c, b) => w[x] = v[x] + 1
  BY Raised
<1>2. ContextOK(p, w, c) /\ ContextOK(p, w, b) /\ c.cycle \in Nat
  BY <1>1, ContextKept DEF ContextOK
<1>3. VersionsDiffer(c, b) \subseteq FlattenedInterface(p)
  BY DEF VersionsDiffer, ContextOK
<1>4. ASSUME NEW x \in VersionsDiffer(c, b)
      PROVE  NameOK(p, w, c.cycle, <<x, v[x] + 1, c.cycle>>)
  <2>1. x \in FlattenedInterface(p) /\ v[x] \in Nat
    BY <1>3
  <2>2. w \in [FlattenedInterface(p) -> Nat] /\ v[x] + 1 \in Nat /\ v[x] + 1 <= w[x]
    BY <1>1, <2>1 DEF Grows
  <2> QED BY <1>2, <2>1, <2>2, NextNameOK
<1>5. \A n \in DOMAIN d.val : NameOK(p, w, c.cycle, n)
  <2>1. ASSUME NEW n \in DOMAIN d.val
        PROVE  NameOK(p, w, c.cycle, n)
    <3>1. n \in DOMAIN c.val \/ n \in DOMAIN b.val
          \/ \E x \in VersionsDiffer(c, b) : n = <<x, v[x] + 1, c.cycle>>
      BY DEF Joined
    <3>2. \A m \in DOMAIN c.val : NameOK(p, w, c.cycle, m)
      BY <1>2 DEF ContextOK
    <3>3. \A m \in DOMAIN b.val : NameOK(p, w, c.cycle, m)
      BY <1>2 DEF ContextOK
    <3> QED BY <1>4, <3>1, <3>2, <3>3, Zenon
  <2> QED BY <2>1
<1>6. Like(c, d) /\ d.label = c.label
  BY DEF Joined
<1> QED BY <1>2, <1>5, <1>6, LikeOK DEF Like

(* The next cycle starts with version 0 of every variable.                 *)
LEMMA AdvancedOK ==
  ASSUME NEW p, WellFormed(p), NEW v \in [FlattenedInterface(p) -> Nat],
         NEW c, ContextOK(p, v, c), Depth(c) = 1,
         NEW w, w = [x \in FlattenedInterface(p) |-> 0], NEW d, Advanced(p, c, d)
  PROVE  Goes(p, w, d) /\ d.cycle = c.cycle + 1
<1>1. c.cycle \in Nat /\ StackOK(p, d.stack) /\ Scope(d) = Scope(c)
  BY DEF ContextOK, Advanced, Scope
<1>2. Scope(c) = MainScope(p) /\ ReturnLabel(c) = MainCfg(p).entry
  BY FramesOfStack DEF ContextOK
<1>3. AtVertex(p, d)
  BY <1>1, <1>2 DEF AtVertex, Advanced, MainCfg, WellFormed
<1>4. w \in [FlattenedInterface(p) -> Nat]
  OBVIOUS
<1>5. ASSUME NEW n \in DOMAIN c.val
      PROVE  NameOK(p, w, c.cycle + 1, n)
  <2>1. n \in FlattenedInterface(p) \X Nat \X Nat /\ n[3] <= c.cycle
    BY DEF ContextOK, NameOK
  <2>2. n[3] \in Nat
    BY <2>1
  <2>3. n[3] <= c.cycle + 1 /\ n[3] # c.cycle + 1
    BY <1>1, <2>1, <2>2
  <2> QED BY <2>1, <2>3 DEF NameOK
<1>6. ASSUME NEW x \in FlattenedInterface(p)
      PROVE  NameOK(p, w, c.cycle + 1, <<x, 0, c.cycle + 1>>)
  <2>1. w[x] \in Nat /\ c.cycle + 1 \in Nat /\ 0 <= w[x]
    BY <1>1, <1>4
  <2> QED BY <1>4, <2>1, NextNameOK
<1>7. \A n \in DOMAIN d.val : NameOK(p, w, d.cycle, n)
  BY <1>5, <1>6 DEF Advanced
<1>8. Fields(d) /\ d.cycle = c.cycle + 1 /\ DOMAIN d.ver = FlattenedInterface(p)
  BY DEF Advanced
<1>9. ContextOK(p, w, d)
  BY <1>1, <1>7, <1>8 DEF ContextOK, Fields
<1> QED BY <1>3, <1>8, <1>9 DEF Goes

(* A call pushes a frame.                                                  *)
LEMMA EnteredOK ==
  ASSUME NEW p, WellFormed(p), NEW v, NEW c, ContextOK(p, v, c), NEW i,
         Append(Scope(c), i) \in DOMAIN p.scopes,
         NEW r \in DOMAIN CfgOf(p, Scope(c)).vertices, NEW d, Entered(c, i, r, d)
  PROVE  /\ ContextOK(p, v, d) /\ d.cycle = c.cycle
         /\ Scope(d) = Append(Scope(c), i) /\ Depth(d) = Depth(c) + 1
<1>1. StackOK(p, c.stack) /\ Pushed(c, i, r, d)
  BY DEF ContextOK, Entered
<1>2. StackOK(p, d.stack) /\ Scope(d) = Append(Scope(c), i) /\ Depth(d) = Depth(c) + 1
  BY <1>1, PushFrame
<1> QED BY <1>2 DEF ContextOK, Entered, Fields

(* A return pops it.                                                       *)
LEMMA ExitedOK ==
  ASSUME NEW p, WellFormed(p), NEW v, NEW c, ContextOK(p, v, c), Depth(c) > 1,
         NEW d, Exited(c, d)
  PROVE  Goes(p, v, d) /\ d.cycle = c.cycle
<1>1. StackOK(p, c.stack) /\ d.label = ReturnLabel(c)
      /\ d.stack = SubSeq(c.stack, 1, Depth(c) - 1)
  BY DEF ContextOK, Exited
<1>2. StackOK(p, d.stack) /\ AtVertex(p, d)
  BY <1>1, PopFrame
<1> QED BY <1>2 DEF ContextOK, Exited, Fields, Goes

(* A summary has its names moved behind the versions given out.            *)
LEMMA SummarizedOK ==
  ASSUME NEW p, WellFormedSummaries(p), ReferencesResolve(p),
         NEW v \in [FlattenedInterface(p) -> Nat], NEW c, ContextOK(p, v, c),
         NEW k \in DOMAIN SummariesAt(p, c), NEW s, s = SummariesAt(p, c)[k],
         NEW d, Summarized(v, c, s, d),
         NEW w, w = [x \in DOMAIN v |-> IF x \in WrittenVariables(s) THEN d.ver[x] ELSE v[x]]
  PROVE  /\ ContextOK(p, w, d) /\ d.cycle = c.cycle /\ Grows(p, v, w)
         /\ Scope(d) = Scope(c) /\ Depth(d) = Depth(c)
<1> DEFINE f == p.scopes[Scope(c)]
<1>1. f \in DOMAIN p.summaries /\ s = p.summaries[f][k] /\ k \in DOMAIN p.summaries[f]
  BY SummariesOfCallee
<1> HIDE DEF f
<1>2. \A x \in WrittenVariables(s) :
        /\ HighestVersion(s, x) \in Nat
        /\ \A n \in WrittenNames(s) :
             n[1] = x => n[2] \in Nat /\ n[2] <= HighestVersion(s, x)
  BY <1>1, HighestVersionIsHighest
<1>3. WrittenVariables(s) \subseteq FlattenedInterface(p)
  BY <1>1, Zenon DEF ReferencesResolve
<1>4. \A x \in WrittenVariables(s) : d.ver[x] = v[x] + 1 + HighestVersion(s, x)
  BY <1>3 DEF Summarized, ContextOK
<1>5. \A x \in FlattenedInterface(p) :
        w[x] = IF x \in WrittenVariables(s) THEN v[x] + 1 + HighestVersion(s, x) ELSE v[x]
  BY <1>4
<1>6. w \in [FlattenedInterface(p) -> Nat]
  <2>1. w = [x \in FlattenedInterface(p) |->
               IF x \in WrittenVariables(s) THEN d.ver[x] ELSE v[x]]
    OBVIOUS
  <2>2. \A x \in FlattenedInterface(p) : x \in WrittenVariables(s) => d.ver[x] \in Nat
    BY <1>2, <1>4
  <2> QED BY <2>1, <2>2
<1>7. Grows(p, v, w)
  <2>1. ASSUME NEW x \in FlattenedInterface(p)
        PROVE  v[x] <= w[x]
    <3>1. CASE x \in WrittenVariables(s)
      <4>1. w[x] = v[x] + 1 + HighestVersion(s, x) /\ v[x] \in Nat /\ HighestVersion(s, x) \in Nat
        BY <1>2, <1>5, <3>1
      <4> QED BY <4>1
    <3>2. CASE x \notin WrittenVariables(s)
      BY <1>5, <3>2
    <3> QED BY <3>1, <3>2
  <2> QED BY <1>6, <2>1 DEF Grows
<1>8. ContextOK(p, w, c)
  BY <1>7, ContextKept, Zenon
<1>9. ASSUME NEW n \in WrittenNames(s)
      PROVE  NameOK(p, w, c.cycle, <<n[1], n[2] + v[n[1]] + 1, c.cycle>>)
  <2>1. n[1] \in WrittenVariables(s) /\ n[1] \in FlattenedInterface(p)
    BY <1>3 DEF WrittenVariables
  <2>2. n[2] \in Nat /\ HighestVersion(s, n[1]) \in Nat /\ n[2] <= HighestVersion(s, n[1])
        /\ v[n[1]] \in Nat /\ w[n[1]] = v[n[1]] + 1 + HighestVersion(s, n[1])
    BY <1>2, <1>5, <2>1
  <2>3. n[2] + v[n[1]] + 1 \in Nat /\ n[2] + v[n[1]] + 1 <= w[n[1]]
    BY <2>2
  <2>4. c.cycle \in Nat
    BY DEF ContextOK
  <2> QED BY <1>6, <2>1, <2>3, <2>4, NextNameOK
<1>10. \A n \in DOMAIN d.val : NameOK(p, w, c.cycle, n)
  <2>1. \A n \in DOMAIN c.val : NameOK(p, w, c.cycle, n)
    BY <1>8 DEF ContextOK
  <2>2. DOMAIN d.val = DOMAIN c.val \cup
          {<<n[1], n[2] + v[n[1]] + 1, c.cycle>> : n \in WrittenNames(s)}
    BY DEF Summarized
  <2> QED BY <1>9, <2>1, <2>2
<1>11. Like(c, d)
  BY DEF Summarized
<1>12. /\ ContextOK(p, w, d) /\ d.cycle = c.cycle
       /\ Scope(d) = Scope(c) /\ Depth(d) = Depth(c)
  BY ONLY <1>8, <1>10, <1>11, LikeOK
<1> QED BY <1>7, <1>12

-----------------------------------------------------------------------------
(* The kinds of actions that the engines have.                             *)

(* A vertex that is passed through.                                        *)
LEMMA PassStepOK ==
  ASSUME ContextsOK, ControlOK, NEW c \in explorer, Pop(c), version' = version,
         Vertex(c).op = "none", Vertex(c).type # "EXIT", NEW d, Return(<<d>>),
         Moved(c, d), d.label = SucceedingLabel(Graph(c), c.label)
  PROVE  Inv'
<1>1. /\ ContextOK(P, version, c) /\ c.cycle = cycle
      /\ WellFormedVertex(P, Scope(c), c.label)
  BY PopOK
<1>2. d.label \in DOMAIN CfgOf(P, Scope(c)).vertices
  BY <1>1 DEF WellFormedVertex, Vertex, Graph, SucceedingLabel
<1>3. ContextOK(P, version, d) /\ d.cycle = cycle /\ Scope(d) = Scope(c)
  BY <1>1, MovedOK
<1>4. Goes(P, version', d) /\ Grows(P, version, version')
  BY <1>2, <1>3, GrowsNot DEF Goes, AtVertex, ContextsOK
<1> QED BY <1>3, <1>4, ReturnOneOK

(* An assignment, of an expression or of a nondeterministic value.         *)
LEMMA WriteStepOK ==
  ASSUME ContextsOK, ControlOK, NEW c \in explorer, Pop(c),
         version' = [version EXCEPT ![Assigned(c)] = @ + 1],
         Vertex(c).op \in {"assign", "havoc"}, NEW d, Return(<<d>>),
         Wrote(version, c, Assigned(c), d), d.label = NextLabel(c)
  PROVE  Inv'
<1>1. /\ ContextOK(P, version, c) /\ c.cycle = cycle /\ AtVertex(P, c)
      /\ Scope(c) \in DOMAIN P.scopes /\ WellFormedVertex(P, Scope(c), c.label)
  BY PopOK
<1>2. d.label \in DOMAIN CfgOf(P, Scope(c)).vertices
  BY <1>1, TargetLeads DEF WellFormedVertex, Vertex, Graph, NextLabel
<1>3. Assigned(c) \in FlattenedInterface(P)
  <2>1. Vertex(c).var \in References(Vertex(c))
    BY DEF References
  <2>2. ReferencesResolve(P)
    BY ProgramOK DEF ContextsOK
  <2> QED BY <1>1, <2>1, <2>2 DEF ReferencesResolve, AtVertex, Vertex, Graph, Assigned
<1>4. version \in [FlattenedInterface(P) -> Nat]
  BY DEF ContextsOK
<1>5. /\ ContextOK(P, version', d) /\ d.cycle = c.cycle /\ Grows(P, version, version')
      /\ Scope(d) = Scope(c)
  <2>1. GaveOut(version, Assigned(c), version')
    BY DEF GaveOut
  <2>2. ContextOK(P, version, c) /\ Wrote(version, c, Assigned(c), d)
    BY <1>1
  <2> QED BY ONLY <1>3, <1>4, <2>1, <2>2, WroteOK
<1>6. Goes(P, version', d)
  BY <1>2, <1>5 DEF Goes, AtVertex
<1> QED BY <1>1, <1>5, <1>6, ReturnOneOK

(* A decision: one or both of its branches are followed.                   *)
LEMMA BranchStepOK ==
  ASSUME ContextsOK, ControlOK, NEW c \in explorer, Pop(c), version' = version,
         Vertex(c).op = "if", NEW contexts, IsSeq(contexts), Return(contexts),
         \A d \in RangeOf(contexts) : /\ Moved(c, d)
                                      /\ \E holds : d.label = BranchTarget(Graph(c), c, holds)
  PROVE  Inv'
<1>1. /\ ContextOK(P, version, c) /\ c.cycle = cycle
      /\ WellFormedVertex(P, Scope(c), c.label)
  BY PopOK
<1>2. version \in [FlattenedInterface(P) -> Nat]
  BY DEF ContextsOK
<1>3. ASSUME NEW d \in RangeOf(contexts)
      PROVE  Goes(P, version', d) /\ d.cycle = cycle
  <2>1. /\ Target(Graph(c), c.label, "TRUE_BRANCH") \in DOMAIN CfgOf(P, Scope(c)).vertices
        /\ Target(Graph(c), c.label, "FALSE_BRANCH") \in DOMAIN CfgOf(P, Scope(c)).vertices
    BY <1>1, TargetLeads DEF WellFormedVertex, Vertex, Graph
  <2>2. d.label \in DOMAIN CfgOf(P, Scope(c)).vertices
    BY <2>1 DEF BranchTarget
  <2>3. ContextOK(P, version, d) /\ d.cycle = cycle /\ Scope(d) = Scope(c)
    BY <1>1, MovedOK
  <2> QED BY <2>2, <2>3 DEF Goes, AtVertex
<1>4. Grows(P, version, version')
  BY <1>2, GrowsNot
<1> QED BY <1>2, <1>3, <1>4, ReturnOK

(* The context with the frame of the function block that is called.        *)
LEMMA CalleeOK ==
  ASSUME ContextsOK, ControlOK, NEW c \in explorer, Pop(c),
         Vertex(c).op = "call", NEW d,
         Entered(c, Vertex(c).instance, Target(Graph(c), c.label, "CALL_TO_RETURN"), d)
  PROVE  /\ ContextOK(P, version, d) /\ d.cycle = cycle /\ Depth(d) > 1
         /\ Target(Graph(c), c.label, "CALL") \in DOMAIN CfgOf(P, Scope(d)).vertices
<1> DEFINE i == Vertex(c).instance
           r == Target(Graph(c), c.label, "CALL_TO_RETURN")
<1>1. /\ ContextOK(P, version, c) /\ c.cycle = cycle /\ WellFormed(P)
      /\ WellFormedVertex(P, Scope(c), c.label)
  BY PopOK
<1>2. /\ Append(Scope(c), i) \in DOMAIN P.scopes
      /\ r \in DOMAIN CfgOf(P, Scope(c)).vertices
      /\ Target(Graph(c), c.label, "CALL") \in DOMAIN CfgOf(P, Append(Scope(c), i)).vertices
  BY <1>1, TargetLeads DEF WellFormedVertex, Vertex, Graph
<1>3. Entered(c, i, r, d)
  OBVIOUS
<1> HIDE DEF i, r
<1>4. /\ ContextOK(P, version, d) /\ d.cycle = c.cycle
      /\ Scope(d) = Append(Scope(c), i) /\ Depth(d) = Depth(c) + 1
  BY <1>1, <1>2, <1>3, EnteredOK
<1>5. Depth(c) \in Nat \ {0}
  BY <1>1, FramesOfStack DEF ContextOK
<1> QED BY <1>1, <1>2, <1>4, <1>5

(* The function block is executed.                                         *)
LEMMA CallStepOK ==
  ASSUME ContextsOK, ControlOK, NEW c \in explorer, Pop(c), version' = version,
         Vertex(c).op = "call", NEW d,
         Entered(c, Vertex(c).instance, Target(Graph(c), c.label, "CALL_TO_RETURN"), d),
         NEW e, Return(<<e>>), Moved(d, e), e.label = Target(Graph(c), c.label, "CALL")
  PROVE  Inv'
<1>1. /\ ContextOK(P, version, d) /\ d.cycle = cycle
      /\ e.label \in DOMAIN CfgOf(P, Scope(d)).vertices
  BY CalleeOK
<1>2. ContextOK(P, version, e) /\ e.cycle = cycle /\ Scope(e) = Scope(d)
  BY <1>1, MovedOK
<1>3. Goes(P, version', e) /\ Grows(P, version, version')
  BY <1>1, <1>2, GrowsNot DEF Goes, AtVertex, ContextsOK
<1> QED BY <1>2, <1>3, ReturnOneOK

(* The exit of a function block.                                           *)
LEMMA ReturnStepOK ==
  ASSUME ContextsOK, ControlOK, NEW c \in explorer, Pop(c), version' = version,
         Graph(c).type = "FUNCTION_BLOCK", NEW d, Return(<<d>>), Exited(c, d)
  PROVE  Inv'
<1>1. ContextOK(P, version, c) /\ c.cycle = cycle /\ WellFormed(P)
  BY PopOK
<1>2. Depth(c) > 1
  BY <1>1, FramesOfStack DEF ContextOK, Graph
<1>3. Goes(P, version, d) /\ d.cycle = cycle
  BY <1>1, <1>2, ExitedOK
<1>4. Grows(P, version, version')
  BY GrowsNot DEF ContextsOK
<1> QED BY <1>3, <1>4, ReturnOneOK

(* The exit of the program.                                                *)
LEMMA ExitStepOK ==
  ASSUME ContextsOK, ControlOK, NEW c \in explorer, Pop(c),
         version' = [x \in DOMAIN version |-> 0],
         Vertex(c).type = "EXIT", Graph(c).type = "PROGRAM",
         NEW d, Return(<<d>>), Advanced(P, c, d)
  PROVE  Inv'
<1>1. /\ ContextOK(P, version, c) /\ c.cycle = cycle /\ WellFormed(P)
      /\ WellFormedVertex(P, Scope(c), c.label)
  BY PopOK
<1>2. Depth(c) = 1 /\ Scope(c) = MainScope(P)
  BY <1>1, FramesOfStack DEF ContextOK, Graph
<1>3. AtProgramExit(c)
  BY <1>1, <1>2 DEF AtProgramExit, WellFormedVertex, Vertex, Graph, MainCfg
<1>4. version \in [FlattenedInterface(P) -> Nat]
  BY DEF ContextsOK
<1>5. version' = [x \in FlattenedInterface(P) |-> 0]
      /\ version' \in [FlattenedInterface(P) -> Nat]
  BY <1>4
<1>6. Goes(P, version', d) /\ d.cycle = cycle + 1
  BY <1>1, <1>2, <1>4, <1>5, AdvancedOK
<1> QED BY <1>3, <1>5, <1>6, ReturnNextOK

(* One pass of the merger.                                                 *)
LEMMA MergeStepOK ==
  ASSUME ContextsOK, ControlOK, NEW d, MergeFirstTwo(d),
         Joined(version, held[1], held[2], d)
  PROVE  Inv'
<1>1. IsSeq(held) /\ Len(held) > 1
  BY DEF ControlOK, EngineOK, MergeFirstTwo
<1>2. held[1] \in RangeOf(held) /\ held[2] \in RangeOf(held)
  <2>1. held # <<>>
    BY <1>1
  <2> QED BY <1>1, <2>1, NonemptySeq DEF RangeOf
<1>3. /\ ContextOK(P, version, held[1]) /\ ContextOK(P, version, held[2])
      /\ held[2].cycle = held[1].cycle
  BY <1>2 DEF ContextsOK, ControlOK, CyclesOK, Live
<1>4. version' = [x \in DOMAIN version |->
                    IF x \in VersionsDiffer(held[1], held[2]) THEN version[x] + 1 ELSE version[x]]
  BY DEF MergeFirstTwo
<1>5. /\ ContextOK(P, version', d) /\ d.cycle = held[1].cycle
      /\ d.stack = held[1].stack /\ d.label = held[1].label
  BY <1>3, <1>4, JoinedOK DEF ContextsOK
<1> QED BY <1>5, MergeFirstTwoOK

(* One pass of the loop over the summaries of a call.                      *)
LEMMA ApplyStepOK ==
  ASSUME ContextsOK, ControlOK, phase = "summarize", NEW k \in todo,
         NEW s, s = SummariesAt(P, held[1])[k],
         NEW a, Summarized(version, held[1], s, a), NEW d, Exited(a, d),
         version' = [x \in DOMAIN version |->
                       IF x \in WrittenVariables(s) THEN a.ver[x] ELSE version[x]],
         UNCHANGED <<prog, cycle, explorer, merger, succeeding>>,
         pending' = Append(pending, d), todo' = todo \ {k},
         held' = (IF todo = {k} THEN <<>> ELSE held),
         phase' = (IF todo = {k} THEN "dispatch" ELSE phase) \/ phase' = "aborted"
  PROVE  Inv'
<1> DEFINE c == held[1]
<1>1. /\ c \in RangeOf(held) /\ Depth(c) > 1 /\ k \in DOMAIN SummariesAt(P, c)
      /\ version \in [FlattenedInterface(P) -> Nat]
  <2>1. Len(held) = 1 /\ IsSeq(held) /\ Depth(c) > 1 /\ k \in DOMAIN SummariesAt(P, c)
    BY DEF ControlOK, PhasesOK, EngineOK
  <2>2. held # <<>>
    BY ONLY <2>1
  <2> QED BY <2>1, <2>2, NonemptySeq DEF ContextsOK
<1>2. WellFormed(P) /\ WellFormedSummaries(P) /\ ReferencesResolve(P)
  BY ProgramOK DEF ContextsOK
<1>3. ContextOK(P, version, c) /\ c.cycle = cycle
  BY <1>1 DEF ContextsOK, ControlOK, CyclesOK, Live
<1>4. s = SummariesAt(P, c)[k] /\ Summarized(version, c, s, a)
  OBVIOUS
<1> HIDE DEF c
<1>5. /\ ContextOK(P, version', a) /\ a.cycle = cycle /\ Grows(P, version, version')
      /\ Depth(a) > 1
  <2> DEFINE w == version'
  <2>1. w = [x \in DOMAIN version |->
               IF x \in WrittenVariables(s) THEN a.ver[x] ELSE version[x]]
    OBVIOUS
  <2> HIDE DEF w
  <2>2. /\ ContextOK(P, w, a) /\ a.cycle = c.cycle /\ Grows(P, version, w)
        /\ Depth(a) = Depth(c)
    BY ONLY <1>1, <1>2, <1>3, <1>4, <2>1, SummarizedOK
  <2> QED BY <1>1, <1>3, <2>2 DEF w
<1>6. Goes(P, version', d) /\ d.cycle = cycle
  BY <1>2, <1>5, ExitedOK
<1> QED BY <1>5, <1>6, AppliedOK

-----------------------------------------------------------------------------
(* The shapes in which all engines build a context.                        *)

Writes(c, val, x, i, l, d) == d = [c EXCEPT !.val = val, !.ver[x] = i, !.label = l]

WritesNext(v, c, x, l, d) ==
  \E val, i : /\ i = v[x] + 1 /\ DOMAIN val = DOMAIN c.val \cup {<<x, i, c.cycle>>}
             /\ Writes(c, val, x, i, l, d)

Advances(c, val, ver, pc, l, d) ==
  d = [c EXCEPT !.val = val, !.ver = ver, !.pc = pc, !.label = l, !.cycle = @ + 1]

Joins(c, val, pc, ver, d) == d = [c EXCEPT !.val = val, !.pc = pc, !.ver = ver]

JoinsConcretely(c, val, conc, pc, ver, d) ==
  d = [c EXCEPT !.val = val, !.conc = conc, !.pc = pc, !.ver = ver]

(* The concrete store is the engines' own.                                 *)
Concretes(a, conc, d) == d = [a EXCEPT !.conc = conc]

(* It does not matter here.                                                *)
LEMMA ConcretesOK ==
  ASSUME NEW a, Fields(a), NEW conc, NEW d, Concretes(a, conc, d)
  PROVE  /\ Fields(d) /\ d.cycle = a.cycle /\ d.stack = a.stack /\ d.label = a.label
         /\ d.val = a.val /\ d.ver = a.ver
BY DEF Concretes, Fields

(* A write, of whatever value.                                             *)
LEMMA WritesOK ==
  ASSUME NEW c, Fields(c), NEW v, NEW x, NEW l, NEW d, WritesNext(v, c, x, l, d)
  PROVE  Wrote(v, c, x, d) /\ d.label = l
<1>0. PICK val, i : /\ i = v[x] + 1 /\ DOMAIN val = DOMAIN c.val \cup {<<x, i, c.cycle>>}
                    /\ Writes(c, val, x, i, l, d)
  BY DEF WritesNext
<1>1. Like(c, d) /\ d.val = val /\ d.label = l
  <2>1. Writes(c, val, x, i, l, d)
    BY <1>0
  <2> QED BY ONLY Fields(c), <2>1 DEF Writes, Like, Fields
<1> QED BY <1>0, <1>1 DEF Wrote

(* The next cycle, whatever its values.                                    *)
LEMMA AdvancesOK ==
  ASSUME NEW p, NEW c, Fields(c), NEW val, NEW ver, NEW pc, NEW d,
         DOMAIN val = DOMAIN c.val \cup {<<x, 0, c.cycle + 1>> : x \in FlattenedInterface(p)},
         DOMAIN ver = FlattenedInterface(p),
         Advances(c, val, ver, pc, ReturnLabel(c), d)
  PROVE  Advanced(p, c, d)
<1>1. ASSUME NEW l, Advances(c, val, ver, pc, l, d)
      PROVE  /\ Fields(d) /\ d.stack = c.stack /\ d.cycle = c.cycle + 1
             /\ d.val = val /\ d.ver = ver /\ d.label = l
  BY <1>1 DEF Advances, Fields
<1> QED BY <1>1 DEF Advanced

(* A join, whatever its values.                                            *)
LEMMA JoinsOK ==
  ASSUME NEW c, Fields(c), NEW v, NEW b, NEW val, NEW ver, NEW pc, NEW d,
         DOMAIN val = DOMAIN c.val \cup DOMAIN b.val
                        \cup {<<x, v[x] + 1, c.cycle>> : x \in VersionsDiffer(c, b)},
         DOMAIN ver = DOMAIN c.ver,
         Joins(c, val, pc, ver, d) \/ \E conc : JoinsConcretely(c, val, conc, pc, ver, d)
  PROVE  Joined(v, c, b, d)
<1>1. /\ Fields(d) /\ d.stack = c.stack /\ d.cycle = c.cycle
      /\ d.val = val /\ d.ver = ver /\ d.label = c.label
  <2>1. CASE Joins(c, val, pc, ver, d)
    BY <2>1 DEF Joins, Fields
  <2>2. ASSUME NEW conc, JoinsConcretely(c, val, conc, pc, ver, d)
        PROVE  /\ Fields(d) /\ d.stack = c.stack /\ d.cycle = c.cycle
               /\ d.val = val /\ d.ver = ver /\ d.label = c.label
    BY ONLY Fields(c), <2>2 DEF JoinsConcretely, Fields
  <2> QED BY <2>1, <2>2
<1> QED BY <1>1 DEF Joined, Like

(* Sequences of what a decision returns.                                   *)
LEMMA Concatenated ==
  \A a, b : /\ <<a>> \o <<>> = <<a>> /\ <<>> \o <<b>> = <<b>>
            /\ <<a>> \o <<b>> = <<a, b>>
<1>1. ASSUME NEW a, NEW b
      PROVE  /\ <<a>> \o <<>> = <<a>> /\ <<>> \o <<b>> = <<b>>
             /\ <<a>> \o <<b>> = <<a, b>>
  <2>1. <<a>> \o <<>> = <<a>> /\ <<>> \o <<b>> = <<b>>
    OBVIOUS
  <2>2. <<a>> \o <<b>> = <<a, b>>
    <3> DEFINE s == <<a>> \o <<b>>
    <3>1. s \in Seq({a, b}) /\ Len(s) = 2 /\ s[1] = a /\ s[2] = b
      BY ConcatProperties
    <3> HIDE DEF s
    <3>2. s = <<a, b>>
      BY <3>1
    <3> QED BY <3>2 DEF s
  <2> QED BY <2>1, <2>2
<1> QED BY <1>1, Zenon

(* A step that leaves all contexts alone and ends the engine, or not.      *)
LEMMA StaysOK ==
  ASSUME ContextsOK, ControlOK, prog' = prog, cycle' = cycle, UNCHANGED contextVars,
         todo' = todo, phase' = phase \/ (phase = "run" /\ phase' \in {"step", "done"})
                       \/ phase' \in {"done", "aborted"}
  PROVE  Inv'
<1>1. CASE phase' \in {"done", "aborted"}
  <2>1. Live' = Live /\ version' = version
    BY DEF contextVars, Live, InMerger
  <2>2. Grows(P, version, version')
    BY <2>1, GrowsNot DEF ContextsOK
  <2> DEFINE new == {}
  <2>3. Live' \subseteq Live \cup new /\ \A c \in new : ContextOK(P, version', c)
    BY <2>1
  <2> HIDE DEF new
  <2>4. Stopping'
    BY <1>1 DEF Stopping
  <2> QED BY <2>2, <2>3, <2>4, StopOK
<1>2. CASE phase' = phase \/ (phase = "run" /\ phase' = "step")
  BY <1>2, IdleOK
<1> QED BY <1>1, <1>2

(* An engine that leaves its loop keeps its contexts, or drops one.        *)
LEMMA LeaveOK ==
  ASSUME ContextsOK, explorer' \subseteq explorer, phase' \in {"done", "aborted"}, prog' = prog,
         UNCHANGED <<merger, version, succeeding, held, pending>>
  PROVE  Inv'
<1>1. Live' \subseteq Live /\ version' = version
  BY DEF Live, InMerger
<1>2. Grows(P, version, version')
  BY <1>1, GrowsNot DEF ContextsOK
<1> DEFINE new == {}
<1>3. Live' \subseteq Live \cup new /\ \A c \in new : ContextOK(P, version', c)
  BY <1>1
<1> HIDE DEF new
<1>4. Stopping'
  BY DEF Stopping
<1> QED BY <1>2, <1>3, <1>4, StopOK

(* The context that is popped has the fields of a context.                 *)
LEMMA PoppedFields ==
  ASSUME ContextsOK, NEW c \in explorer
  PROVE  Fields(c)
BY DEF ContextsOK, ContextOK, Live, Fields

(* So have the contexts that are merged.                                   *)
LEMMA HeldFields ==
  ASSUME ContextsOK, ControlOK, Len(held) = 1 \/ Len(held) > 1
  PROVE  Fields(held[1])
<1>1. IsSeq(held)
  BY DEF ControlOK, EngineOK
<1>2. held # <<>>
  <2>1. Len(<<>>) = 0
    OBVIOUS
  <2> QED BY <2>1
<1>3. held[1] \in RangeOf(held)
  BY <1>1, <1>2, NonemptySeq
<1> QED BY <1>3 DEF ContextsOK, ContextOK, Live, Fields

-----------------------------------------------------------------------------
(* The engine of se/ahorn.                                                 *)

(* Its own copies of the operators of the loop.                            *)
LEMMA AhornLoop ==
  /\ Ahorn!P = P
  /\ \A c : /\ Ahorn!Pop(c) => Pop(c)
            /\ Ahorn!Return(c) => Return(c)
            /\ Ahorn!MergeFirstTwo(c) => MergeFirstTwo(c)
  /\ Ahorn!StartMerge => StartMerge
  /\ Ahorn!FinishMerge => FinishMerge
  /\ Ahorn!FinishStep => FinishStep
  /\ Ahorn!DispatchHead(TRUE) => DispatchHead(TRUE)
<1>1. Ahorn!P = P
  BY DEF Ahorn!P, P
<1>2. ASSUME NEW c, Ahorn!Pop(c)
      PROVE  Pop(c)
  BY <1>2, Zenon DEF Ahorn!Pop, Ahorn!CanPop, Ahorn!Precedes, Ahorn!Depth, Ahorn!coverageVars,
     Pop, CanPop, Precedes, Depth, coverageVars
<1>3. ASSUME NEW c, Ahorn!Return(c)
      PROVE  Return(c)
  BY <1>3, Zenon DEF Ahorn!Return, Return
<1>4. ASSUME NEW c, Ahorn!MergeFirstTwo(c)
      PROVE  MergeFirstTwo(c)
  BY <1>4, Zenon DEF Ahorn!MergeFirstTwo, Ahorn!VersionsDiffer, Ahorn!coverageVars,
     MergeFirstTwo, VersionsDiffer, coverageVars
<1>5. ASSUME Ahorn!StartMerge
      PROVE  StartMerge
  BY <1>5, Zenon DEF Ahorn!StartMerge, Ahorn!Eligible, Ahorn!coverageVars,
     StartMerge, Eligible, coverageVars
<1>6. ASSUME Ahorn!FinishMerge
      PROVE  FinishMerge
  BY <1>6, Zenon DEF Ahorn!FinishMerge, Ahorn!coverageVars, FinishMerge, coverageVars
<1>7. ASSUME Ahorn!FinishStep
      PROVE  FinishStep
  BY <1>7, Zenon DEF Ahorn!FinishStep, Ahorn!MergerIsEmpty, Ahorn!coverageVars,
     FinishStep, MergerIsEmpty, coverageVars
<1>8. ASSUME Ahorn!DispatchHead(TRUE)
      PROVE  DispatchHead(TRUE)
  <2>1. \A c : /\ Ahorn!MergePoint(c) = MergePoint(c)
               /\ Ahorn!ReachedMergePoint(c) <=> ReachedMergePoint(c)
               /\ Ahorn!TakenBy(c) = TakenBy(c)
    BY Zenon DEF Ahorn!MergePoint, Ahorn!ReachedMergePoint, Ahorn!Scope, Ahorn!Depth,
       Ahorn!ReturnLabel, MergePoint, ReachedMergePoint, Scope, Depth, ReturnLabel,
       Ahorn!TakenBy, TakenBy, Ahorn!Graph, Graph, Ahorn!P, P, Ahorn!CfgOf, CfgOf,
       Ahorn!BranchesTaken, BranchesTaken, Ahorn!OutgoingEdges, OutgoingEdges
  <2> QED BY <1>8, <2>1, Zenon DEF Ahorn!DispatchHead, DispatchHead
<1> QED BY <1>1, <1>2, <1>3, <1>4, <1>5, <1>6, <1>7, <1>8, Zenon

(* Its own copies of what it reads of a program.                           *)
LEMMA AhornReads ==
  \A c : /\ Ahorn!Graph(c) = Graph(c) /\ Ahorn!Vertex(c) = Vertex(c)
         /\ Ahorn!Assigned(c) = Assigned(c) /\ Ahorn!NextLabel(c) = NextLabel(c)
         /\ \A l : /\ Ahorn!SucceedingLabel(Graph(c), l) = SucceedingLabel(Graph(c), l)
                   /\ \A type : Ahorn!Target(Graph(c), l, type) = Target(Graph(c), l, type)
<1>1. ASSUME NEW c
      PROVE  Ahorn!Graph(c) = Graph(c) /\ Ahorn!Vertex(c) = Vertex(c)
  BY Zenon DEF Ahorn!Graph, Ahorn!Vertex, Ahorn!Scope, Ahorn!CfgOf, Ahorn!P,
     Graph, Vertex, Scope, CfgOf, P
<1>2. ASSUME NEW g, NEW l
      PROVE  /\ Ahorn!SucceedingLabel(g, l) = SucceedingLabel(g, l)
             /\ \A type : Ahorn!Target(g, l, type) = Target(g, l, type)
  BY Zenon DEF Ahorn!SucceedingLabel, Ahorn!Target, Ahorn!OutgoingEdges,
     SucceedingLabel, Target, OutgoingEdges
<1>3. ASSUME NEW c
      PROVE  Ahorn!Assigned(c) = Assigned(c) /\ Ahorn!NextLabel(c) = NextLabel(c)
  BY <1>1, <1>2, Zenon DEF Ahorn!Assigned, Ahorn!NextLabel, Ahorn!Flatten, Ahorn!Scope,
     Assigned, NextLabel, Flatten, Scope
<1> QED BY <1>1, <1>2, <1>3, Zenon

(* What its operations leave of a context.                                 *)
LEMMA AhornPasses ==
  ASSUME NEW c, Fields(c)
  PROVE  /\ Moved(c, Ahorn!Passed(c))
         /\ Ahorn!Passed(c).label = SucceedingLabel(Graph(c), c.label)
<1>1. Ahorn!Passed(c) = [c EXCEPT !.label = SucceedingLabel(Graph(c), c.label)]
  BY AhornReads, Zenon DEF Ahorn!Passed
<1> QED BY <1>1 DEF Fields, Moved, Like

(* An assignment writes the next version of the variable.                  *)
LEMMA AhornAssigns ==
  ASSUME NEW c, Fields(c), NEW v, NEW x, NEW e, NEW l, NEW d,
         d = Ahorn!AssignConcolic(P, v, c, x, e, l)
  PROVE  Wrote(v, c, x, d) /\ d.label = l
<1> DEFINE a == Ahorn!Assign(P, v, c, x, e, l)
           names == {<<x, v[x] + 1, c.cycle>>}
<1>1. \E new : Writes(c, Ahorn!Emplace(c.val, names, new), x, v[x] + 1, l, a)
  BY Zenon DEF Ahorn!Assign, Writes
<1>2. \A new : DOMAIN Ahorn!Emplace(c.val, names, new) = DOMAIN c.val \cup names
  BY DEF Ahorn!Emplace
<1>3. \E conc : Concretes(a, conc, d)
  BY Zenon DEF Ahorn!AssignConcolic, Concretes
<1> HIDE DEF a
<1>4. Wrote(v, c, x, a) /\ a.label = l
  <2>1. PICK new : Writes(c, Ahorn!Emplace(c.val, names, new), x, v[x] + 1, l, a)
    BY <1>1
  <2> DEFINE val == Ahorn!Emplace(c.val, names, new)
             i == v[x] + 1
  <2>2. DOMAIN val = DOMAIN c.val \cup {<<x, i, c.cycle>>}
    BY <1>2
  <2>3. Writes(c, val, x, i, l, a) /\ i = v[x] + 1
    BY <2>1
  <2> HIDE DEF val, i
  <2>4. WritesNext(v, c, x, l, a)
    BY <2>2, <2>3, Zenon DEF WritesNext
  <2> QED BY ONLY Fields(c), <2>4, WritesOK
<1>5. Fields(a)
  BY <1>4 DEF Wrote, Like
<1> QED BY <1>3, <1>4, <1>5, ConcretesOK DEF Wrote, Like

(* So does an assignment of a nondeterministic value.                      *)
LEMMA AhornHavocs ==
  ASSUME NEW c, Fields(c), NEW v, NEW x, NEW random, NEW l, NEW d,
         d = Ahorn!HavocConcolic(P, v, c, x, random, l)
  PROVE  Wrote(v, c, x, d) /\ d.label = l
<1> DEFINE a == Ahorn!HavocSymbolic(P, v, c, x, l)
           names == {<<x, v[x] + 1, c.cycle>>}
<1>1. \E new : Writes(c, Ahorn!Emplace(c.val, names, new), x, v[x] + 1, l, a)
  BY Zenon DEF Ahorn!HavocSymbolic, Writes
<1>2. \A new : DOMAIN Ahorn!Emplace(c.val, names, new) = DOMAIN c.val \cup names
  BY DEF Ahorn!Emplace
<1>3. \E conc : Concretes(a, conc, d)
  BY Zenon DEF Ahorn!HavocConcolic, Concretes
<1> HIDE DEF a
<1>4. Wrote(v, c, x, a) /\ a.label = l
  <2>1. PICK new : Writes(c, Ahorn!Emplace(c.val, names, new), x, v[x] + 1, l, a)
    BY <1>1
  <2> DEFINE val == Ahorn!Emplace(c.val, names, new)
             i == v[x] + 1
  <2>2. DOMAIN val = DOMAIN c.val \cup {<<x, i, c.cycle>>}
    BY <1>2
  <2>3. Writes(c, val, x, i, l, a) /\ i = v[x] + 1
    BY <2>1
  <2> HIDE DEF val, i
  <2>4. WritesNext(v, c, x, l, a)
    BY <2>2, <2>3, Zenon DEF WritesNext
  <2> QED BY ONLY Fields(c), <2>4, WritesOK
<1>5. Fields(a)
  BY <1>4 DEF Wrote, Like
<1> QED BY <1>3, <1>4, <1>5, ConcretesOK DEF Wrote, Like

(* A decision sends the context, or two copies of it, to its branches.     *)
LEMMA AhornBranches ==
  ASSUME NEW c, Fields(c), NEW e, NEW fork \in Ahorn!ForkOther(P, Graph(c), c, e),
         NEW contexts, contexts = <<Ahorn!Follow(Graph(c), c, e)>> \o fork
  PROVE  IsSeq(contexts) /\ \A d \in RangeOf(contexts) :
           Moved(c, d) /\ \E holds : d.label = BranchTarget(Graph(c), c, holds)
<1> DEFINE follow == Ahorn!Follow(Graph(c), c, e)
<1>1. \A holds : Ahorn!BranchTarget(Graph(c), c, holds) = BranchTarget(Graph(c), c, holds)
  BY AhornReads, Zenon DEF Ahorn!BranchTarget, BranchTarget
<1>2. Moved(c, follow) /\ \E holds : follow.label = BranchTarget(Graph(c), c, holds)
  <2>1. follow = [c EXCEPT
          !.pc = Ahorn!PushPathConstraint(@, <<Ahorn!Encode(c, e), Ahorn!EvaluateConcretely(c, e)>>),
          !.label = BranchTarget(Graph(c), c, Ahorn!EvaluateConcretely(c, e))]
    BY <1>1, Zenon DEF Ahorn!Follow
  <2> HIDE DEF follow
  <2> QED BY <2>1 DEF Fields, Moved, Like
<1> HIDE DEF follow
<1>3. \/ fork = <<>>
      \/ \E d : /\ fork = <<d>> /\ Moved(c, d)
                /\ \E holds : d.label = BranchTarget(Graph(c), c, holds)
  <2> DEFINE other == ~Ahorn!EvaluateConcretely(c, e)
             literal == <<Ahorn!Encode(c, e), other>>
             l == BranchTarget(Graph(c), c, other)
  <2>1. fork \in Ahorn!TryFork(P, c, literal, l)
    BY <1>1 DEF Ahorn!ForkOther
  <2>2. l = BranchTarget(Graph(c), c, other)
    OBVIOUS
  <2> HIDE DEF literal, l, other
  <2>3. fork = <<>> \/ \E w : fork = <<Ahorn!Fork(c, literal, l, w)>>
    BY <2>1 DEF Ahorn!TryFork
  <2>4. ASSUME NEW w
        PROVE  Moved(c, Ahorn!Fork(c, literal, l, w)) /\ Ahorn!Fork(c, literal, l, w).label = l
    BY DEF Ahorn!Fork, Fields, Moved, Like
  <2> QED BY <2>2, <2>3, <2>4, Zenon
<1>4. CASE fork = <<>>
  <2>1. contexts = <<follow>>
    BY <1>4, Concatenated, Zenon DEF follow
  <2> QED BY ONLY <1>2, <2>1, ShortSeq
<1>5. ASSUME NEW d, fork = <<d>>, Moved(c, d),
             \E holds : d.label = BranchTarget(Graph(c), c, holds)
      PROVE  IsSeq(contexts) /\ \A a \in RangeOf(contexts) :
               Moved(c, a) /\ \E holds : a.label = BranchTarget(Graph(c), c, holds)
  <2>1. contexts = <<follow, d>>
    BY <1>5, Concatenated, Zenon DEF follow
  <2> QED BY ONLY <1>2, <1>5, <2>1, ShortSeq
<1> QED BY <1>3, <1>4, <1>5

(* The exit of the program gives every variable a name of the next cycle.  *)
LEMMA AhornAdvances ==
  ASSUME NEW c, Fields(c), NEW inputs, NEW d, d = Ahorn!NextConcolicCycle(P, c, inputs)
  PROVE  Advanced(P, c, d)
<1> DEFINE a == Ahorn!NextCycle(P, c)
           names == {<<x, 0, c.cycle + 1>> : x \in FlattenedInterface(P)}
           zero == [x \in FlattenedInterface(P) |-> 0]
<1>1. \E new : Advances(c, Ahorn!Emplace(c.val, names, new), zero, {{}}, ReturnLabel(c), a)
  BY Zenon DEF Ahorn!NextCycle, Advances, Ahorn!FlattenedInterface, Ahorn!CfgOf,
     FlattenedInterface, CfgOf, Ahorn!ReturnLabel, ReturnLabel
<1>2. \A new : DOMAIN Ahorn!Emplace(c.val, names, new) = DOMAIN c.val \cup names
  BY DEF Ahorn!Emplace
<1>3. \E conc : Concretes(a, conc, d)
  BY Zenon DEF Ahorn!NextConcolicCycle, Concretes
<1>4. DOMAIN zero = FlattenedInterface(P)
  OBVIOUS
<1> HIDE DEF a, zero
<1>5. Advanced(P, c, a)
  BY <1>1, <1>2, <1>4, AdvancesOK
<1>6. Fields(a)
  BY <1>5 DEF Advanced
<1> QED BY <1>3, <1>5, <1>6, ConcretesOK DEF Advanced

(* A call pushes a frame and a return pops it.                             *)
LEMMA AhornCalls ==
  ASSUME NEW c, Fields(c)
  PROVE  /\ Entered(c, Vertex(c).instance, Target(Graph(c), c.label, "CALL_TO_RETURN"),
                    Ahorn!Called(c))
         /\ Exited(c, Ahorn!Returned(c))
<1>1. Ahorn!Scope(c) = Scope(c) /\ Ahorn!ReturnLabel(c) = ReturnLabel(c)
  BY DEF Ahorn!Scope, Scope, Ahorn!ReturnLabel, ReturnLabel
<1>2. Ahorn!Called(c) =
        [c EXCEPT !.stack = Append(@, Frame(c, Vertex(c).instance,
                                            Target(Graph(c), c.label, "CALL_TO_RETURN")))]
  BY <1>1, AhornReads, Zenon DEF Ahorn!Called, Frame
<1>3. Ahorn!Returned(c) =
        [c EXCEPT !.label = ReturnLabel(c), !.stack = SubSeq(@, 1, Len(@) - 1)]
  BY <1>1, Zenon DEF Ahorn!Returned
<1> QED BY <1>2, <1>3 DEF Fields, Entered, Pushed, Exited, Depth

(* The join has the names of both contexts and new ones where they differ. *)
LEMMA AhornJoins ==
  ASSUME NEW v, NEW c, Fields(c), NEW b, NEW d, d = Ahorn!MergeConcolic(P, v, c, b)
  PROVE  Joined(v, c, b, d)
<1> DEFINE names == {<<x, v[x] + 1, c.cycle>> : x \in VersionsDiffer(c, b)}
           both == Ahorn!Emplace(c.val, DOMAIN b.val, b.val)
           ver == [x \in DOMAIN c.ver |-> IF x \in VersionsDiffer(c, b) THEN v[x] + 1 ELSE c.ver[x]]
<1>1. \E new, conc, pc : JoinsConcretely(c, Ahorn!Emplace(both, names, new), conc, pc, ver, d)
  BY Zenon DEF Ahorn!MergeConcolic, Ahorn!VersionsDiffer, VersionsDiffer, Ahorn!MergedName,
     JoinsConcretely
<1>2. \A f, more, new : DOMAIN Ahorn!Emplace(f, more, new) = DOMAIN f \cup more
  BY DEF Ahorn!Emplace
<1>3. \A new : DOMAIN Ahorn!Emplace(both, names, new) = DOMAIN c.val \cup DOMAIN b.val \cup names
  <2>1. DOMAIN both = DOMAIN c.val \cup DOMAIN b.val
    BY <1>2
  <2>2. \A new : DOMAIN Ahorn!Emplace(both, names, new) = DOMAIN both \cup names
    BY <1>2
  <2> HIDE DEF both, names
  <2> QED BY <2>1, <2>2
<1>4. DOMAIN ver = DOMAIN c.ver
  OBVIOUS
<1> HIDE DEF ver, both
<1> QED BY <1>1, <1>3, <1>4, JoinsOK

(* Every action of the engine keeps the invariant.                         *)
LEMMA AhornNextOK ==
  ASSUME ContextsOK, ControlOK, Ahorn!Next
  PROVE  Inv'
<1>1. CASE Ahorn!RunLoop
  BY <1>1, StaysOK DEF Ahorn!RunLoop, Ahorn!RunLoopUnless, Ahorn!contextVars, contextVars
<1>2. CASE Ahorn!EndOfStep
  BY <1>2, AhornLoop, FinishStepOK DEF Ahorn!EndOfStep
<1>3. CASE Ahorn!LocalTermination
  BY <1>3, LeaveOK DEF Ahorn!LocalTermination, Ahorn!Leave
<1>4. CASE Ahorn!BeginMerge
  BY <1>4, AhornLoop, StartMergeOK DEF Ahorn!BeginMerge
<1>5. CASE Ahorn!MergePair
  <2> DEFINE d == Ahorn!MergeConcolic(P, version, held[1], held[2])
  <2>1. Len(held) > 1 /\ MergeFirstTwo(d)
    BY <1>5, AhornLoop, Zenon DEF Ahorn!MergePair, Ahorn!Merged
  <2>2. Fields(held[1])
    BY <2>1, HeldFields
  <2>3. Joined(version, held[1], held[2], d)
    BY <2>2, AhornJoins
  <2> HIDE DEF d
  <2> QED BY <2>1, <2>3, MergeStepOK
<1>6. CASE Ahorn!EndMerge
  BY <1>6, AhornLoop, FinishMergeOK DEF Ahorn!EndMerge
<1>7. CASE Ahorn!HandleProgramEntryVertex \/ Ahorn!HandleFunctionBlockEntryVertex
  <2>1. PICK c \in explorer : /\ Pop(c) /\ version' = version
                              /\ Vertex(c).type = "ENTRY"
                              /\ Return(<<Ahorn!Passed(c)>>)
    BY <1>7, AhornLoop, AhornReads, Zenon
       DEF Ahorn!HandleProgramEntryVertex, Ahorn!HandleFunctionBlockEntryVertex, Ahorn!Execute
  <2> DEFINE d == Ahorn!Passed(c)
  <2>2. Moved(c, d) /\ d.label = SucceedingLabel(Graph(c), c.label)
    BY PoppedFields, AhornPasses
  <2>3. Vertex(c).op = "none" /\ Vertex(c).type # "EXIT"
    BY <2>1, PopOK DEF WellFormedVertex, Vertex, Graph
  <2>4. Return(<<d>>)
    BY <2>1
  <2> HIDE DEF d
  <2> QED BY <2>1, <2>2, <2>3, <2>4, PassStepOK
<1>8. CASE Ahorn!VisitAssignmentInstruction
  <2>1. PICK c \in explorer :
          /\ Pop(c) /\ Vertex(c).op = "assign"
          /\ version' = [version EXCEPT ![Assigned(c)] = @ + 1]
          /\ Return(<<Ahorn!AssignConcolic(P, version, c, Assigned(c), Vertex(c).rhs, NextLabel(c))>>)
    BY <1>8, AhornLoop, AhornReads, Zenon DEF Ahorn!VisitAssignmentInstruction, Ahorn!Execute
  <2> DEFINE d == Ahorn!AssignConcolic(P, version, c, Assigned(c), Vertex(c).rhs, NextLabel(c))
  <2>2. Wrote(version, c, Assigned(c), d) /\ d.label = NextLabel(c)
    BY PoppedFields, AhornAssigns
  <2>3. Return(<<d>>)
    BY <2>1
  <2> HIDE DEF d
  <2> QED BY <2>1, <2>2, <2>3, WriteStepOK
<1>9. CASE Ahorn!VisitHavocInstruction
  <2>1. PICK c \in explorer :
          /\ Pop(c) /\ Vertex(c).op = "havoc"
          /\ version' = [version EXCEPT ![Assigned(c)] = @ + 1]
          /\ \E random \in BOOLEAN :
               Return(<<Ahorn!HavocConcolic(P, version, c, Assigned(c), random, NextLabel(c))>>)
    BY <1>9, AhornLoop, AhornReads, Zenon DEF Ahorn!VisitHavocInstruction, Ahorn!Execute
  <2>2. PICK random \in BOOLEAN :
          Return(<<Ahorn!HavocConcolic(P, version, c, Assigned(c), random, NextLabel(c))>>)
    BY <2>1
  <2> DEFINE d == Ahorn!HavocConcolic(P, version, c, Assigned(c), random, NextLabel(c))
  <2>3. Wrote(version, c, Assigned(c), d) /\ d.label = NextLabel(c)
    BY PoppedFields, AhornHavocs
  <2>4. Return(<<d>>)
    BY <2>2
  <2> HIDE DEF d
  <2> QED BY <2>1, <2>3, <2>4, WriteStepOK
<1>10. CASE Ahorn!VisitCallInstruction
  <2>1. PICK c \in explorer :
          /\ Pop(c) /\ version' = version /\ Ahorn!Vertex(c).op = "call"
          /\ Return(<<[Ahorn!Called(c) EXCEPT
                         !.label = Ahorn!Target(Ahorn!Graph(c), c.label, "CALL")]>>)
    BY <1>10, AhornLoop, Zenon DEF Ahorn!VisitCallInstruction, Ahorn!Execute
  <2> DEFINE d == Ahorn!Called(c)
             l == Ahorn!Target(Ahorn!Graph(c), c.label, "CALL")
             e == [d EXCEPT !.label = l]
  <2>2. l = Target(Graph(c), c.label, "CALL") /\ Vertex(c).op = "call"
    BY <2>1, AhornReads
  <2>3. Entered(c, Vertex(c).instance, Target(Graph(c), c.label, "CALL_TO_RETURN"), d)
    BY PoppedFields, AhornCalls
  <2>4. Return(<<e>>)
    BY <2>1
  <2> HIDE DEF d, l
  <2>5. Moved(d, e) /\ e.label = l
    BY <2>3 DEF Entered, Fields, Moved, Like
  <2> HIDE DEF e
  <2> QED BY <2>1, <2>2, <2>3, <2>4, <2>5, CallStepOK
<1>11. CASE Ahorn!VisitIfInstruction
  <2>1. PICK c \in explorer :
          /\ Pop(c) /\ version' = version /\ Vertex(c).op = "if"
          /\ \E fork \in Ahorn!ForkOther(P, Graph(c), c, Vertex(c).cond) :
               Return(<<Ahorn!Follow(Graph(c), c, Vertex(c).cond)>> \o fork)
    BY <1>11, AhornLoop, AhornReads, Zenon
       DEF Ahorn!VisitIfInstruction, Ahorn!Execute, Ahorn!Forked
  <2>2. PICK fork \in Ahorn!ForkOther(P, Graph(c), c, Vertex(c).cond) :
          Return(<<Ahorn!Follow(Graph(c), c, Vertex(c).cond)>> \o fork)
    BY <2>1
  <2> DEFINE contexts == <<Ahorn!Follow(Graph(c), c, Vertex(c).cond)>> \o fork
  <2>3. IsSeq(contexts) /\ \A d \in RangeOf(contexts) :
          Moved(c, d) /\ \E holds : d.label = BranchTarget(Graph(c), c, holds)
    BY PoppedFields, AhornBranches
  <2>4. Return(contexts)
    BY <2>2
  <2> HIDE DEF contexts
  <2> QED BY <2>1, <2>3, <2>4, BranchStepOK
<1>12. CASE Ahorn!HandleProgramExitVertex
  <2>1. PICK c \in explorer :
          /\ Pop(c) /\ Vertex(c).type = "EXIT" /\ Graph(c).type = "PROGRAM"
          /\ version' = [x \in DOMAIN version |-> 0]
          /\ \E inputs : Return(<<Ahorn!NextConcolicCycle(P, c, inputs)>>)
    BY <1>12, AhornLoop, AhornReads, Zenon DEF Ahorn!HandleProgramExitVertex, Ahorn!Execute
  <2>2. PICK inputs : Return(<<Ahorn!NextConcolicCycle(P, c, inputs)>>)
    BY <2>1
  <2> DEFINE d == Ahorn!NextConcolicCycle(P, c, inputs)
  <2>3. Advanced(P, c, d)
    BY PoppedFields, AhornAdvances
  <2>4. Return(<<d>>)
    BY <2>2
  <2> HIDE DEF d
  <2> QED BY <2>1, <2>3, <2>4, ExitStepOK
<1>13. CASE Ahorn!HandleFunctionBlockExitVertex
  <2>1. PICK c \in explorer : /\ Pop(c) /\ version' = version /\ Graph(c).type = "FUNCTION_BLOCK"
                              /\ Return(<<Ahorn!Returned(c)>>)
    BY <1>13, AhornLoop, AhornReads, Zenon DEF Ahorn!HandleFunctionBlockExitVertex, Ahorn!Execute
  <2> DEFINE d == Ahorn!Returned(c)
  <2>2. Exited(c, d)
    BY PoppedFields, AhornCalls
  <2>3. Return(<<d>>)
    BY <2>1
  <2> HIDE DEF d
  <2> QED BY <2>1, <2>2, <2>3, ReturnStepOK
<1>14. CASE Ahorn!Dispatch
  BY <1>14, AhornLoop, DispatchHeadOK DEF Ahorn!Dispatch
<1>15. CASE Ahorn!TimeOut
  BY <1>15, StaysOK DEF Ahorn!TimeOut, Ahorn!PassTimeOut, Ahorn!contextVars, contextVars
<1>16. CASE Ahorn!Stopped
  BY <1>16, StaysOK DEF Ahorn!Stopped, Ahorn!vars, Ahorn!contextVars, contextVars
<1> QED BY <1>1, <1>2, <1>3, <1>4, <1>5, <1>6, <1>7, <1>8, <1>9, <1>10, <1>11, <1>12, <1>13,
           <1>14, <1>15, <1>16 DEF Ahorn!Next, Ahorn!EngineStep

-----------------------------------------------------------------------------
(* The engine of se/oa.                                                    *)

(* Its own copies of the operators of the loop.                            *)
LEMMA OaLoop ==
  /\ Oa!P = P
  /\ \A c : /\ Oa!Pop(c) => Pop(c)
            /\ Oa!Return(c) => Return(c)
            /\ Oa!MergeFirstTwo(c) => MergeFirstTwo(c)
  /\ Oa!StartMerge => StartMerge
  /\ Oa!FinishMerge => FinishMerge
  /\ Oa!FinishStep => FinishStep
  /\ Oa!DispatchHead(TRUE) => DispatchHead(TRUE)
<1>1. Oa!P = P
  BY DEF Oa!P, P
<1>2. ASSUME NEW c, Oa!Pop(c)
      PROVE  Pop(c)
  BY <1>2, Zenon DEF Oa!Pop, Oa!CanPop, Oa!Precedes, Oa!Depth, Oa!coverageVars,
     Pop, CanPop, Precedes, Depth, coverageVars
<1>3. ASSUME NEW c, Oa!Return(c)
      PROVE  Return(c)
  BY <1>3, Zenon DEF Oa!Return, Return
<1>4. ASSUME NEW c, Oa!MergeFirstTwo(c)
      PROVE  MergeFirstTwo(c)
  BY <1>4, Zenon DEF Oa!MergeFirstTwo, Oa!VersionsDiffer, Oa!coverageVars,
     MergeFirstTwo, VersionsDiffer, coverageVars
<1>5. ASSUME Oa!StartMerge
      PROVE  StartMerge
  BY <1>5, Zenon DEF Oa!StartMerge, Oa!Eligible, Oa!coverageVars,
     StartMerge, Eligible, coverageVars
<1>6. ASSUME Oa!FinishMerge
      PROVE  FinishMerge
  BY <1>6, Zenon DEF Oa!FinishMerge, Oa!coverageVars, FinishMerge, coverageVars
<1>7. ASSUME Oa!FinishStep
      PROVE  FinishStep
  BY <1>7, Zenon DEF Oa!FinishStep, Oa!MergerIsEmpty, Oa!coverageVars,
     FinishStep, MergerIsEmpty, coverageVars
<1>8. ASSUME Oa!DispatchHead(TRUE)
      PROVE  DispatchHead(TRUE)
  <2>1. \A c : /\ Oa!MergePoint(c) = MergePoint(c)
               /\ Oa!ReachedMergePoint(c) <=> ReachedMergePoint(c)
               /\ Oa!TakenBy(c) = TakenBy(c)
    BY Zenon DEF Oa!MergePoint, Oa!ReachedMergePoint, Oa!Scope, Oa!Depth,
       Oa!ReturnLabel, MergePoint, ReachedMergePoint, Scope, Depth, ReturnLabel,
       Oa!TakenBy, TakenBy, Oa!Graph, Graph, Oa!P, P, Oa!CfgOf, CfgOf,
       Oa!BranchesTaken, BranchesTaken, Oa!OutgoingEdges, OutgoingEdges
  <2> QED BY <1>8, <2>1, Zenon DEF Oa!DispatchHead, DispatchHead
<1> QED BY <1>1, <1>2, <1>3, <1>4, <1>5, <1>6, <1>7, <1>8, Zenon

(* Its own copies of what it reads of a program.                           *)
LEMMA OaReads ==
  \A c : /\ Oa!Graph(c) = Graph(c) /\ Oa!Vertex(c) = Vertex(c)
         /\ Oa!Assigned(c) = Assigned(c) /\ Oa!NextLabel(c) = NextLabel(c)
         /\ \A l : /\ Oa!SucceedingLabel(Graph(c), l) = SucceedingLabel(Graph(c), l)
                   /\ \A type : Oa!Target(Graph(c), l, type) = Target(Graph(c), l, type)
<1>1. ASSUME NEW c
      PROVE  Oa!Graph(c) = Graph(c) /\ Oa!Vertex(c) = Vertex(c)
  BY Zenon DEF Oa!Graph, Oa!Vertex, Oa!Scope, Oa!CfgOf, Oa!P,
     Graph, Vertex, Scope, CfgOf, P
<1>2. ASSUME NEW g, NEW l
      PROVE  /\ Oa!SucceedingLabel(g, l) = SucceedingLabel(g, l)
             /\ \A type : Oa!Target(g, l, type) = Target(g, l, type)
  BY Zenon DEF Oa!SucceedingLabel, Oa!Target, Oa!OutgoingEdges,
     SucceedingLabel, Target, OutgoingEdges
<1>3. ASSUME NEW c
      PROVE  Oa!Assigned(c) = Assigned(c) /\ Oa!NextLabel(c) = NextLabel(c)
  BY <1>1, <1>2, Zenon DEF Oa!Assigned, Oa!NextLabel, Oa!Flatten, Oa!Scope,
     Assigned, NextLabel, Flatten, Scope
<1> QED BY <1>1, <1>2, <1>3, Zenon

(* What its operations leave of a context.                                 *)
LEMMA OaPasses ==
  ASSUME NEW c, Fields(c)
  PROVE  /\ Moved(c, Oa!Passed(c))
         /\ Oa!Passed(c).label = SucceedingLabel(Graph(c), c.label)
<1>1. Oa!Passed(c) = [c EXCEPT !.label = SucceedingLabel(Graph(c), c.label)]
  BY OaReads, Zenon DEF Oa!Passed
<1> QED BY <1>1 DEF Fields, Moved, Like

(* An assignment writes the next version of the variable.                  *)
LEMMA OaAssigns ==
  ASSUME NEW c, Fields(c), NEW v, NEW x, NEW e, NEW l, NEW d,
         d = Oa!Assign(P, v, c, x, e, l)
  PROVE  Wrote(v, c, x, d) /\ d.label = l
<1> DEFINE names == {<<x, v[x] + 1, c.cycle>>}
<1>1. \E new : Writes(c, Oa!Emplace(c.val, names, new), x, v[x] + 1, l, d)
  BY Zenon DEF Oa!Assign, Writes
<1>2. \A new : DOMAIN Oa!Emplace(c.val, names, new) = DOMAIN c.val \cup names
  BY DEF Oa!Emplace
<1>3. PICK new : Writes(c, Oa!Emplace(c.val, names, new), x, v[x] + 1, l, d)
  BY <1>1
<1> DEFINE val == Oa!Emplace(c.val, names, new)
           i == v[x] + 1
<1>4. DOMAIN val = DOMAIN c.val \cup {<<x, i, c.cycle>>}
  BY <1>2
<1>5. Writes(c, val, x, i, l, d) /\ i = v[x] + 1
  BY <1>3
<1> HIDE DEF val, i
<1>6. WritesNext(v, c, x, l, d)
  BY <1>4, <1>5, Zenon DEF WritesNext
<1> QED BY ONLY Fields(c), <1>6, WritesOK

(* So does an assignment of a nondeterministic value.                      *)
LEMMA OaHavocs ==
  ASSUME NEW c, Fields(c), NEW v, NEW x, NEW l, NEW d,
         d = Oa!HavocSymbolic(P, v, c, x, l)
  PROVE  Wrote(v, c, x, d) /\ d.label = l
<1> DEFINE names == {<<x, v[x] + 1, c.cycle>>}
<1>1. \E new : Writes(c, Oa!Emplace(c.val, names, new), x, v[x] + 1, l, d)
  BY Zenon DEF Oa!HavocSymbolic, Writes
<1>2. \A new : DOMAIN Oa!Emplace(c.val, names, new) = DOMAIN c.val \cup names
  BY DEF Oa!Emplace
<1>3. PICK new : Writes(c, Oa!Emplace(c.val, names, new), x, v[x] + 1, l, d)
  BY <1>1
<1> DEFINE val == Oa!Emplace(c.val, names, new)
           i == v[x] + 1
<1>4. DOMAIN val = DOMAIN c.val \cup {<<x, i, c.cycle>>}
  BY <1>2
<1>5. Writes(c, val, x, i, l, d) /\ i = v[x] + 1
  BY <1>3
<1> HIDE DEF val, i
<1>6. WritesNext(v, c, x, l, d)
  BY <1>4, <1>5, Zenon DEF WritesNext
<1> QED BY ONLY Fields(c), <1>6, WritesOK

(* A decision sends the context, or two copies of it, to its branches.     *)
LEMMA OaBranches ==
  ASSUME NEW c, Fields(c), NEW contexts, contexts = Oa!Forked(c, TRUE) \o Oa!Forked(c, FALSE)
  PROVE  IsSeq(contexts) /\ \A d \in RangeOf(contexts) :
           Moved(c, d) /\ \E holds : d.label = BranchTarget(Graph(c), c, holds)
<1> DEFINE Branch(holds) ==
             [c EXCEPT !.pc = Oa!PushPathConstraint(@, <<Oa!Encode(c, Oa!Vertex(c).cond), holds>>),
                       !.label = Oa!BranchTarget(Oa!Graph(c), c, holds)]
           yes == Branch(TRUE)
           no == Branch(FALSE)
<1>1. ASSUME NEW holds
      PROVE  /\ Moved(c, Branch(holds))
             /\ \E h : Branch(holds).label = BranchTarget(Graph(c), c, h)
  <2>1. Oa!BranchTarget(Oa!Graph(c), c, holds) = BranchTarget(Graph(c), c, holds)
    BY OaReads, Zenon DEF Oa!BranchTarget, BranchTarget
  <2> DEFINE l == Oa!BranchTarget(Oa!Graph(c), c, holds)
             pc == Oa!PushPathConstraint(c.pc, <<Oa!Encode(c, Oa!Vertex(c).cond), holds>>)
             d == Branch(holds)
  <2>2. d = [c EXCEPT !.pc = pc, !.label = l]
    OBVIOUS
  <2> HIDE DEF l, pc, d
  <2>3. Moved(c, d) /\ d.label = l
    BY <2>2 DEF Fields, Moved, Like
  <2> QED BY <2>1, <2>3 DEF d, l
<1>2. Oa!Forked(c, TRUE) \in {<<>>, <<yes>>} /\ Oa!Forked(c, FALSE) \in {<<>>, <<no>>}
  BY Zenon DEF Oa!Forked
<1>3. /\ Moved(c, yes) /\ \E h : yes.label = BranchTarget(Graph(c), c, h)
      /\ Moved(c, no) /\ \E h : no.label = BranchTarget(Graph(c), c, h)
  <2> HIDE DEF Branch
  <2>1. /\ Moved(c, Branch(TRUE)) /\ \E h : Branch(TRUE).label = BranchTarget(Graph(c), c, h)
        /\ Moved(c, Branch(FALSE)) /\ \E h : Branch(FALSE).label = BranchTarget(Graph(c), c, h)
    BY <1>1, Zenon
  <2> QED BY <2>1, Zenon
<1> HIDE DEF yes, no, Branch
<1>4. contexts \in {<<>>, <<yes>>, <<no>>, <<yes, no>>}
  <2>1. <<>> \o <<>> = <<>>
    OBVIOUS
  <2> QED BY <1>2, <2>1, Concatenated, Zenon
<1> QED BY ONLY <1>3, <1>4, ShortSeq

(* The exit of the program gives every variable a name of the next cycle.  *)
LEMMA OaAdvances ==
  ASSUME NEW c, Fields(c), NEW d, d = Oa!NextCycle(P, c)
  PROVE  Advanced(P, c, d)
<1> DEFINE names == {<<x, 0, c.cycle + 1>> : x \in FlattenedInterface(P)}
           zero == [x \in FlattenedInterface(P) |-> 0]
<1>1. \E new : Advances(c, Oa!Emplace(c.val, names, new), zero, {{}}, ReturnLabel(c), d)
  BY Zenon DEF Oa!NextCycle, Advances, Oa!FlattenedInterface, Oa!CfgOf,
     FlattenedInterface, CfgOf, Oa!ReturnLabel, ReturnLabel
<1>2. \A new : DOMAIN Oa!Emplace(c.val, names, new) = DOMAIN c.val \cup names
  BY DEF Oa!Emplace
<1>3. DOMAIN zero = FlattenedInterface(P)
  OBVIOUS
<1> HIDE DEF zero
<1> QED BY <1>1, <1>2, <1>3, AdvancesOK

(* A call pushes a frame and a return pops it.                             *)
LEMMA OaCalls ==
  ASSUME NEW c, Fields(c)
  PROVE  /\ Entered(c, Vertex(c).instance, Target(Graph(c), c.label, "CALL_TO_RETURN"),
                    Oa!Called(c))
         /\ Exited(c, Oa!Returned(c))
<1>1. Oa!Scope(c) = Scope(c) /\ Oa!ReturnLabel(c) = ReturnLabel(c)
  BY DEF Oa!Scope, Scope, Oa!ReturnLabel, ReturnLabel
<1>2. Oa!Called(c) =
        [c EXCEPT !.stack = Append(@, Frame(c, Vertex(c).instance,
                                            Target(Graph(c), c.label, "CALL_TO_RETURN")))]
  BY <1>1, OaReads, Zenon DEF Oa!Called, Frame
<1>3. Oa!Returned(c) =
        [c EXCEPT !.label = ReturnLabel(c), !.stack = SubSeq(@, 1, Len(@) - 1)]
  BY <1>1, Zenon DEF Oa!Returned
<1> QED BY <1>2, <1>3 DEF Fields, Entered, Pushed, Exited, Depth

(* The join has the names of both contexts and new ones where they differ. *)
LEMMA OaJoins ==
  ASSUME NEW c, Fields(c), NEW b, NEW d, d = Oa!Merged(c, b)
  PROVE  Joined(version, c, b, d)
<1> DEFINE names == {<<x, version[x] + 1, c.cycle>> : x \in VersionsDiffer(c, b)}
           both == Oa!Emplace(c.val, DOMAIN b.val, b.val)
           ver == [x \in DOMAIN c.ver |->
                     IF x \in VersionsDiffer(c, b) THEN version[x] + 1 ELSE c.ver[x]]
           a == Oa!Merge(Oa!P, version, c, b)
<1>1. \E new, pc : Joins(c, Oa!Emplace(both, names, new), pc, ver, a)
  BY Zenon DEF Oa!Merge, Oa!VersionsDiffer, VersionsDiffer, Oa!MergedName, Joins
<1>2. \A f, more, new : DOMAIN Oa!Emplace(f, more, new) = DOMAIN f \cup more
  BY DEF Oa!Emplace
<1>3. \A new : DOMAIN Oa!Emplace(both, names, new) = DOMAIN c.val \cup DOMAIN b.val \cup names
  <2>1. DOMAIN both = DOMAIN c.val \cup DOMAIN b.val
    BY <1>2
  <2>2. \A new : DOMAIN Oa!Emplace(both, names, new) = DOMAIN both \cup names
    BY <1>2
  <2> HIDE DEF both, names
  <2> QED BY <2>1, <2>2
<1>4. DOMAIN ver = DOMAIN c.ver
  OBVIOUS
<1>5. \E pc : d = [a EXCEPT !.pc = pc]
  BY Zenon DEF Oa!Merged
<1> HIDE DEF ver, both, a
<1>6. Joined(version, c, b, a)
  BY <1>1, <1>3, <1>4, JoinsOK
<1>7. PICK pc : d = [a EXCEPT !.pc = pc]
  BY <1>5
<1>8. Fields(d) /\ d.cycle = a.cycle /\ d.stack = a.stack /\ d.ver = a.ver
      /\ d.val = a.val /\ d.label = a.label
  BY <1>6, <1>7 DEF Joined, Like, Fields
<1> QED BY <1>6, <1>8 DEF Joined, Like

(* Every action of the engine keeps the invariant.                         *)
LEMMA OaNextOK ==
  ASSUME ContextsOK, ControlOK, Oa!Next
  PROVE  Inv'
<1>1. CASE Oa!RunLoop
  BY <1>1, StaysOK DEF Oa!RunLoop, Oa!RunLoopUnless, Oa!contextVars, contextVars
<1>2. CASE Oa!EndOfStep
  BY <1>2, OaLoop, FinishStepOK DEF Oa!EndOfStep
<1>3. CASE Oa!LocalTermination
  BY <1>3, LeaveOK DEF Oa!LocalTermination, Oa!Leave
<1>4. CASE Oa!BeginMerge
  BY <1>4, OaLoop, StartMergeOK DEF Oa!BeginMerge
<1>5. CASE Oa!MergePair
  <2> DEFINE d == Oa!Merged(held[1], held[2])
  <2>1. Len(held) > 1 /\ MergeFirstTwo(d)
    BY <1>5, OaLoop, Zenon DEF Oa!MergePair
  <2>2. Fields(held[1])
    BY <2>1, HeldFields
  <2>3. Joined(version, held[1], held[2], d)
    BY <2>2, OaJoins
  <2> HIDE DEF d
  <2> QED BY <2>1, <2>3, MergeStepOK
<1>6. CASE Oa!EndMerge
  BY <1>6, OaLoop, FinishMergeOK DEF Oa!EndMerge
<1>7. CASE Oa!HandleEntryVertex
  <2>1. PICK c \in explorer : /\ Pop(c) /\ version' = version
                              /\ Vertex(c).type = "ENTRY"
                              /\ Return(<<Oa!Passed(c)>>)
    BY <1>7, OaLoop, OaReads, Zenon DEF Oa!HandleEntryVertex, Oa!Execute
  <2> DEFINE d == Oa!Passed(c)
  <2>2. Moved(c, d) /\ d.label = SucceedingLabel(Graph(c), c.label)
    BY PoppedFields, OaPasses
  <2>3. Vertex(c).op = "none" /\ Vertex(c).type # "EXIT"
    BY <2>1, PopOK DEF WellFormedVertex, Vertex, Graph
  <2>4. Return(<<d>>)
    BY <2>1
  <2> HIDE DEF d
  <2> QED BY <2>1, <2>2, <2>3, <2>4, PassStepOK
<1>8. CASE Oa!VisitAssignmentInstruction
  <2>1. PICK c \in explorer :
          /\ Pop(c) /\ Vertex(c).op = "assign"
          /\ version' = [version EXCEPT ![Assigned(c)] = @ + 1]
          /\ Return(<<Oa!Assign(P, version, c, Assigned(c), Vertex(c).rhs, NextLabel(c))>>)
    BY <1>8, OaLoop, OaReads, Zenon DEF Oa!VisitAssignmentInstruction, Oa!Execute
  <2> DEFINE d == Oa!Assign(P, version, c, Assigned(c), Vertex(c).rhs, NextLabel(c))
  <2>2. Wrote(version, c, Assigned(c), d) /\ d.label = NextLabel(c)
    BY PoppedFields, OaAssigns
  <2>3. Return(<<d>>)
    BY <2>1
  <2> HIDE DEF d
  <2> QED BY <2>1, <2>2, <2>3, WriteStepOK
<1>9. CASE Oa!VisitHavocInstruction
  <2>1. PICK c \in explorer :
          /\ Pop(c) /\ Vertex(c).op = "havoc"
          /\ version' = [version EXCEPT ![Assigned(c)] = @ + 1]
          /\ Return(<<Oa!HavocSymbolic(P, version, c, Assigned(c), NextLabel(c))>>)
    BY <1>9, OaLoop, OaReads, Zenon DEF Oa!VisitHavocInstruction, Oa!Execute
  <2> DEFINE d == Oa!HavocSymbolic(P, version, c, Assigned(c), NextLabel(c))
  <2>2. Wrote(version, c, Assigned(c), d) /\ d.label = NextLabel(c)
    BY PoppedFields, OaHavocs
  <2>3. Return(<<d>>)
    BY <2>1
  <2> HIDE DEF d
  <2> QED BY <2>1, <2>2, <2>3, WriteStepOK
<1>10. CASE Oa!VisitCallInstruction
  <2>1. PICK c \in explorer :
          /\ Pop(c) /\ version' = version /\ Oa!Vertex(c).op = "call"
          /\ Return(<<[Oa!Called(c) EXCEPT
                         !.label = Oa!Target(Oa!Graph(c), c.label, "CALL")]>>)
    BY <1>10, OaLoop, Zenon DEF Oa!VisitCallInstruction, Oa!Execute
  <2> DEFINE d == Oa!Called(c)
             l == Oa!Target(Oa!Graph(c), c.label, "CALL")
             e == [d EXCEPT !.label = l]
  <2>2. l = Target(Graph(c), c.label, "CALL") /\ Vertex(c).op = "call"
    BY <2>1, OaReads
  <2>3. Entered(c, Vertex(c).instance, Target(Graph(c), c.label, "CALL_TO_RETURN"), d)
    BY PoppedFields, OaCalls
  <2>4. Return(<<e>>)
    BY <2>1
  <2> HIDE DEF d, l
  <2>5. Moved(d, e) /\ e.label = l
    BY <2>3 DEF Entered, Fields, Moved, Like
  <2> HIDE DEF e
  <2> QED BY <2>1, <2>2, <2>3, <2>4, <2>5, CallStepOK
<1>11. CASE Oa!VisitIfInstruction
  <2>1. PICK c \in explorer :
          /\ Pop(c) /\ version' = version /\ Vertex(c).op = "if"
          /\ Return(Oa!Forked(c, TRUE) \o Oa!Forked(c, FALSE))
    BY <1>11, OaLoop, OaReads, Zenon DEF Oa!VisitIfInstruction, Oa!Execute
  <2> DEFINE contexts == Oa!Forked(c, TRUE) \o Oa!Forked(c, FALSE)
  <2>2. IsSeq(contexts) /\ \A d \in RangeOf(contexts) :
          Moved(c, d) /\ \E holds : d.label = BranchTarget(Graph(c), c, holds)
    BY PoppedFields, OaBranches
  <2>3. Return(contexts)
    BY <2>1
  <2> HIDE DEF contexts
  <2> QED BY <2>1, <2>2, <2>3, BranchStepOK
<1>12. CASE Oa!HandleProgramExitVertex
  <2>1. PICK c \in explorer :
          /\ Pop(c) /\ Vertex(c).type = "EXIT" /\ Graph(c).type = "PROGRAM"
          /\ version' = [x \in DOMAIN version |-> 0]
          /\ Return(<<Oa!NextCycle(P, c)>>)
    BY <1>12, OaLoop, OaReads, Zenon DEF Oa!HandleProgramExitVertex, Oa!Execute, Oa!StartOver
  <2> DEFINE d == Oa!NextCycle(P, c)
  <2>2. Advanced(P, c, d)
    BY PoppedFields, OaAdvances
  <2>3. Return(<<d>>)
    BY <2>1
  <2> HIDE DEF d
  <2> QED BY <2>1, <2>2, <2>3, ExitStepOK
<1>13. CASE Oa!HandleFunctionBlockExitVertex
  <2>1. PICK c \in explorer : /\ Pop(c) /\ version' = version /\ Graph(c).type = "FUNCTION_BLOCK"
                              /\ Return(<<Oa!Returned(c)>>)
    BY <1>13, OaLoop, OaReads, Zenon DEF Oa!HandleFunctionBlockExitVertex, Oa!Execute
  <2> DEFINE d == Oa!Returned(c)
  <2>2. Exited(c, d)
    BY PoppedFields, OaCalls
  <2>3. Return(<<d>>)
    BY <2>1
  <2> HIDE DEF d
  <2> QED BY <2>1, <2>2, <2>3, ReturnStepOK
<1>14. CASE Oa!Dispatch
  BY <1>14, OaLoop, DispatchHeadOK DEF Oa!Dispatch
<1>15. CASE Oa!Stopped
  BY <1>15, StaysOK DEF Oa!Stopped, Oa!vars, Oa!contextVars, contextVars
<1> QED BY <1>1, <1>2, <1>3, <1>4, <1>5, <1>6, <1>7, <1>8, <1>9, <1>10, <1>11, <1>12, <1>13,
           <1>14, <1>15 DEF Oa!Next, Oa!EngineStep

-----------------------------------------------------------------------------
(* The engine of se/etfa-no-merge.                                         *)

(* Its own copies of the operators of the loop.                            *)
LEMMA MergingLoop ==
  /\ Merging!P = P
  /\ \A c : /\ Merging!Pop(c) => Pop(c)
            /\ Merging!Return(c) => Return(c)
            /\ Merging!MergeFirstTwo(c) => MergeFirstTwo(c)
  /\ Merging!StartMerge => StartMerge
  /\ Merging!FinishMerge => FinishMerge
  /\ Merging!FinishStep => FinishStep
  /\ Merging!DispatchHead(TRUE) => DispatchHead(TRUE)
<1>1. Merging!P = P
  BY DEF Merging!P, P
<1>2. ASSUME NEW c, Merging!Pop(c)
      PROVE  Pop(c)
  BY <1>2, Zenon DEF Merging!Pop, Merging!CanPop, Merging!Precedes, Merging!Depth, Merging!coverageVars,
     Pop, CanPop, Precedes, Depth, coverageVars
<1>3. ASSUME NEW c, Merging!Return(c)
      PROVE  Return(c)
  BY <1>3, Zenon DEF Merging!Return, Return
<1>4. ASSUME NEW c, Merging!MergeFirstTwo(c)
      PROVE  MergeFirstTwo(c)
  BY <1>4, Zenon DEF Merging!MergeFirstTwo, Merging!VersionsDiffer, Merging!coverageVars,
     MergeFirstTwo, VersionsDiffer, coverageVars
<1>5. ASSUME Merging!StartMerge
      PROVE  StartMerge
  BY <1>5, Zenon DEF Merging!StartMerge, Merging!Eligible, Merging!coverageVars,
     StartMerge, Eligible, coverageVars
<1>6. ASSUME Merging!FinishMerge
      PROVE  FinishMerge
  BY <1>6, Zenon DEF Merging!FinishMerge, Merging!coverageVars, FinishMerge, coverageVars
<1>7. ASSUME Merging!FinishStep
      PROVE  FinishStep
  BY <1>7, Zenon DEF Merging!FinishStep, Merging!MergerIsEmpty, Merging!coverageVars,
     FinishStep, MergerIsEmpty, coverageVars
<1>8. ASSUME Merging!DispatchHead(TRUE)
      PROVE  DispatchHead(TRUE)
  <2>1. \A c : /\ Merging!MergePoint(c) = MergePoint(c)
               /\ Merging!ReachedMergePoint(c) <=> ReachedMergePoint(c)
               /\ Merging!TakenBy(c) = TakenBy(c)
    BY Zenon DEF Merging!MergePoint, Merging!ReachedMergePoint, Merging!Scope, Merging!Depth,
       Merging!ReturnLabel, MergePoint, ReachedMergePoint, Scope, Depth, ReturnLabel,
       Merging!TakenBy, TakenBy, Merging!Graph, Graph, Merging!P, P, Merging!CfgOf, CfgOf,
       Merging!BranchesTaken, BranchesTaken, Merging!OutgoingEdges, OutgoingEdges
  <2> QED BY <1>8, <2>1, Zenon DEF Merging!DispatchHead, DispatchHead
<1> QED BY <1>1, <1>2, <1>3, <1>4, <1>5, <1>6, <1>7, <1>8, Zenon

(* Its own copies of what it reads of a program.                           *)
LEMMA MergingReads ==
  \A c : /\ Merging!Graph(c) = Graph(c) /\ Merging!Vertex(c) = Vertex(c)
         /\ Merging!Assigned(c) = Assigned(c) /\ Merging!NextLabel(c) = NextLabel(c)
         /\ \A l : /\ Merging!SucceedingLabel(Graph(c), l) = SucceedingLabel(Graph(c), l)
                   /\ \A type : Merging!Target(Graph(c), l, type) = Target(Graph(c), l, type)
<1>1. ASSUME NEW c
      PROVE  Merging!Graph(c) = Graph(c) /\ Merging!Vertex(c) = Vertex(c)
  BY Zenon DEF Merging!Graph, Merging!Vertex, Merging!Scope, Merging!CfgOf, Merging!P,
     Graph, Vertex, Scope, CfgOf, P
<1>2. ASSUME NEW g, NEW l
      PROVE  /\ Merging!SucceedingLabel(g, l) = SucceedingLabel(g, l)
             /\ \A type : Merging!Target(g, l, type) = Target(g, l, type)
  BY Zenon DEF Merging!SucceedingLabel, Merging!Target, Merging!OutgoingEdges,
     SucceedingLabel, Target, OutgoingEdges
<1>3. ASSUME NEW c
      PROVE  Merging!Assigned(c) = Assigned(c) /\ Merging!NextLabel(c) = NextLabel(c)
  BY <1>1, <1>2, Zenon DEF Merging!Assigned, Merging!NextLabel, Merging!Flatten, Merging!Scope,
     Assigned, NextLabel, Flatten, Scope
<1> QED BY <1>1, <1>2, <1>3, Zenon

(* What its operations leave of a context.                                 *)
LEMMA MergingPasses ==
  ASSUME NEW c, Fields(c)
  PROVE  /\ Moved(c, Merging!Passed(c))
         /\ Merging!Passed(c).label = SucceedingLabel(Graph(c), c.label)
<1>1. Merging!Passed(c) = [c EXCEPT !.label = SucceedingLabel(Graph(c), c.label)]
  BY MergingReads, Zenon DEF Merging!Passed
<1> QED BY <1>1 DEF Fields, Moved, Like

(* An assignment writes the next version of the variable.                  *)
LEMMA MergingAssigns ==
  ASSUME NEW c, Fields(c), NEW v, NEW x, NEW e, NEW l, NEW d,
         d = Merging!AssignConcolic(P, v, c, x, e, l)
  PROVE  Wrote(v, c, x, d) /\ d.label = l
<1> DEFINE a == Merging!Assign(P, v, c, x, e, l)
           names == {<<x, v[x] + 1, c.cycle>>}
<1>1. \E new : Writes(c, Merging!Emplace(c.val, names, new), x, v[x] + 1, l, a)
  BY Zenon DEF Merging!Assign, Writes
<1>2. \A new : DOMAIN Merging!Emplace(c.val, names, new) = DOMAIN c.val \cup names
  BY DEF Merging!Emplace
<1>3. \E conc : Concretes(a, conc, d)
  BY Zenon DEF Merging!AssignConcolic, Concretes
<1> HIDE DEF a
<1>4. Wrote(v, c, x, a) /\ a.label = l
  <2>1. PICK new : Writes(c, Merging!Emplace(c.val, names, new), x, v[x] + 1, l, a)
    BY <1>1
  <2> DEFINE val == Merging!Emplace(c.val, names, new)
             i == v[x] + 1
  <2>2. DOMAIN val = DOMAIN c.val \cup {<<x, i, c.cycle>>}
    BY <1>2
  <2>3. Writes(c, val, x, i, l, a) /\ i = v[x] + 1
    BY <2>1
  <2> HIDE DEF val, i
  <2>4. WritesNext(v, c, x, l, a)
    BY <2>2, <2>3, Zenon DEF WritesNext
  <2> QED BY ONLY Fields(c), <2>4, WritesOK
<1>5. Fields(a)
  BY <1>4 DEF Wrote, Like
<1> QED BY <1>3, <1>4, <1>5, ConcretesOK DEF Wrote, Like

(* A decision sends the context, or two copies of it, to its branches.     *)
LEMMA MergingBranches ==
  ASSUME NEW c, Fields(c), NEW e, NEW fork \in Merging!ForkOther(P, Graph(c), c, e),
         NEW contexts, contexts = <<Merging!Follow(Graph(c), c, e)>> \o fork
  PROVE  IsSeq(contexts) /\ \A d \in RangeOf(contexts) :
           Moved(c, d) /\ \E holds : d.label = BranchTarget(Graph(c), c, holds)
<1> DEFINE follow == Merging!Follow(Graph(c), c, e)
<1>1. \A holds : Merging!BranchTarget(Graph(c), c, holds) = BranchTarget(Graph(c), c, holds)
  BY MergingReads, Zenon DEF Merging!BranchTarget, BranchTarget
<1>2. Moved(c, follow) /\ \E holds : follow.label = BranchTarget(Graph(c), c, holds)
  <2>1. follow = [c EXCEPT
          !.pc = Merging!PushPathConstraint(@, <<Merging!Encode(c, e), Merging!EvaluateConcretely(c, e)>>),
          !.label = BranchTarget(Graph(c), c, Merging!EvaluateConcretely(c, e))]
    BY <1>1, Zenon DEF Merging!Follow
  <2> HIDE DEF follow
  <2> QED BY <2>1 DEF Fields, Moved, Like
<1> HIDE DEF follow
<1>3. \/ fork = <<>>
      \/ \E d : /\ fork = <<d>> /\ Moved(c, d)
                /\ \E holds : d.label = BranchTarget(Graph(c), c, holds)
  <2> DEFINE other == ~Merging!EvaluateConcretely(c, e)
             literal == <<Merging!Encode(c, e), other>>
             l == BranchTarget(Graph(c), c, other)
  <2>1. fork \in Merging!TryFork(P, c, literal, l)
    BY <1>1 DEF Merging!ForkOther
  <2>2. l = BranchTarget(Graph(c), c, other)
    OBVIOUS
  <2> HIDE DEF literal, l, other
  <2>3. fork = <<>> \/ \E w : fork = <<Merging!Fork(c, literal, l, w)>>
    BY <2>1 DEF Merging!TryFork
  <2>4. ASSUME NEW w
        PROVE  Moved(c, Merging!Fork(c, literal, l, w)) /\ Merging!Fork(c, literal, l, w).label = l
    BY DEF Merging!Fork, Fields, Moved, Like
  <2> QED BY <2>2, <2>3, <2>4, Zenon
<1>4. CASE fork = <<>>
  <2>1. contexts = <<follow>>
    BY <1>4, Concatenated, Zenon DEF follow
  <2> QED BY ONLY <1>2, <2>1, ShortSeq
<1>5. ASSUME NEW d, fork = <<d>>, Moved(c, d),
             \E holds : d.label = BranchTarget(Graph(c), c, holds)
      PROVE  IsSeq(contexts) /\ \A a \in RangeOf(contexts) :
               Moved(c, a) /\ \E holds : a.label = BranchTarget(Graph(c), c, holds)
  <2>1. contexts = <<follow, d>>
    BY <1>5, Concatenated, Zenon DEF follow
  <2> QED BY ONLY <1>2, <1>5, <2>1, ShortSeq
<1> QED BY <1>3, <1>4, <1>5

(* The exit of the program gives every variable a name of the next cycle.  *)
LEMMA MergingAdvances ==
  ASSUME NEW c, Fields(c), NEW inputs, NEW d, d = Merging!NextConcolicCycle(P, c, inputs)
  PROVE  Advanced(P, c, d)
<1> DEFINE a == Merging!NextCycle(P, c)
           names == {<<x, 0, c.cycle + 1>> : x \in FlattenedInterface(P)}
           zero == [x \in FlattenedInterface(P) |-> 0]
<1>1. \E new : Advances(c, Merging!Emplace(c.val, names, new), zero, {{}}, ReturnLabel(c), a)
  BY Zenon DEF Merging!NextCycle, Advances, Merging!FlattenedInterface, Merging!CfgOf,
     FlattenedInterface, CfgOf, Merging!ReturnLabel, ReturnLabel
<1>2. \A new : DOMAIN Merging!Emplace(c.val, names, new) = DOMAIN c.val \cup names
  BY DEF Merging!Emplace
<1>3. \E conc : Concretes(a, conc, d)
  BY Zenon DEF Merging!NextConcolicCycle, Concretes
<1>4. DOMAIN zero = FlattenedInterface(P)
  OBVIOUS
<1> HIDE DEF a, zero
<1>5. Advanced(P, c, a)
  BY <1>1, <1>2, <1>4, AdvancesOK
<1>6. Fields(a)
  BY <1>5 DEF Advanced
<1> QED BY <1>3, <1>5, <1>6, ConcretesOK DEF Advanced

(* A call pushes a frame and a return pops it.                             *)
LEMMA MergingCalls ==
  ASSUME NEW c, Fields(c)
  PROVE  /\ Entered(c, Vertex(c).instance, Target(Graph(c), c.label, "CALL_TO_RETURN"),
                    Merging!Called(c))
         /\ Exited(c, Merging!Returned(c))
<1>1. Merging!Scope(c) = Scope(c) /\ Merging!ReturnLabel(c) = ReturnLabel(c)
  BY DEF Merging!Scope, Scope, Merging!ReturnLabel, ReturnLabel
<1>2. Merging!Called(c) =
        [c EXCEPT !.stack = Append(@, Frame(c, Vertex(c).instance,
                                            Target(Graph(c), c.label, "CALL_TO_RETURN")))]
  BY <1>1, MergingReads, Zenon DEF Merging!Called, Frame
<1>3. Merging!Returned(c) =
        [c EXCEPT !.label = ReturnLabel(c), !.stack = SubSeq(@, 1, Len(@) - 1)]
  BY <1>1, Zenon DEF Merging!Returned
<1> QED BY <1>2, <1>3 DEF Fields, Entered, Pushed, Exited, Depth

(* The join has the names of both contexts and new ones where they differ. *)
LEMMA MergingJoins ==
  ASSUME NEW v, NEW c, Fields(c), NEW b, NEW d, d = Merging!MergeConcolic(P, v, c, b)
  PROVE  Joined(v, c, b, d)
<1> DEFINE names == {<<x, v[x] + 1, c.cycle>> : x \in VersionsDiffer(c, b)}
           both == Merging!Emplace(c.val, DOMAIN b.val, b.val)
           ver == [x \in DOMAIN c.ver |-> IF x \in VersionsDiffer(c, b) THEN v[x] + 1 ELSE c.ver[x]]
<1>1. \E new, conc, pc : JoinsConcretely(c, Merging!Emplace(both, names, new), conc, pc, ver, d)
  BY Zenon DEF Merging!MergeConcolic, Merging!VersionsDiffer, VersionsDiffer, Merging!MergedName,
     JoinsConcretely
<1>2. \A f, more, new : DOMAIN Merging!Emplace(f, more, new) = DOMAIN f \cup more
  BY DEF Merging!Emplace
<1>3. \A new : DOMAIN Merging!Emplace(both, names, new) = DOMAIN c.val \cup DOMAIN b.val \cup names
  <2>1. DOMAIN both = DOMAIN c.val \cup DOMAIN b.val
    BY <1>2
  <2>2. \A new : DOMAIN Merging!Emplace(both, names, new) = DOMAIN both \cup names
    BY <1>2
  <2> HIDE DEF both, names
  <2> QED BY <2>1, <2>2
<1>4. DOMAIN ver = DOMAIN c.ver
  OBVIOUS
<1> HIDE DEF ver, both
<1> QED BY <1>1, <1>3, <1>4, JoinsOK

(* The summaries that the lookup finds for the called function block.      *)
LEMMA MergingSummaries ==
  \A c : Merging!SummariesAt(P, c) = SummariesAt(P, c)
BY Zenon DEF Merging!SummariesAt, Merging!Scope, SummariesAt, Scope

(* They are summaries of the called function block.                        *)
LEMMA MergingFinds ==
  \A c : Merging!FindConcretelyApplicableSummaries(P, c) \subseteq DOMAIN SummariesAt(P, c)
BY MergingSummaries DEF Merging!FindConcretelyApplicableSummaries

(* The shape of a context that a summary is applied to.                    *)
LEMMA MergingReversion ==
  \A v, c, s, n :
    /\ Merging!WrittenNames(s) = WrittenNames(s)
    /\ Merging!WrittenVariables(s) = WrittenVariables(s)
    /\ \A x : Merging!HighestVersion(s, x) = HighestVersion(s, x)
    /\ n \in WrittenNames(s) =>
         Merging!Reversion(v, c, s, n) = <<n[1], n[2] + v[n[1]] + 1, c.cycle>>
<1>1. \A s : /\ Merging!WrittenNames(s) = WrittenNames(s)
             /\ Merging!WrittenVariables(s) = WrittenVariables(s)
  BY Zenon DEF Merging!WrittenNames, Merging!WrittenVariables, WrittenNames, WrittenVariables
<1>2. \A s, x : Merging!HighestVersion(s, x) = HighestVersion(s, x)
  BY <1>1, Zenon DEF Merging!HighestVersion, HighestVersion
<1>3. \A v, c, s, n : n \in WrittenNames(s) =>
        Merging!Reversion(v, c, s, n) = <<n[1], n[2] + v[n[1]] + 1, c.cycle>>
  BY <1>1, Zenon DEF Merging!Reversion
<1> QED BY <1>1, <1>2, <1>3, Zenon

(* A summary moves its names behind the versions given out.                *)
LEMMA MergingApplies ==
  ASSUME NEW v, NEW c, Fields(c), NEW s, NEW values, NEW d,
         d = Merging!ApplySummaryConcretely(P, v, c, s, values)
  PROVE  Summarized(v, c, s, d)
<1> DEFINE a == Merging!ApplySummary(P, v, c, s)
           R(n) == Merging!Reversion(v, c, s, n)
           names == {R(n) : n \in Merging!WrittenNames(s)}
           ver == [x \in DOMAIN c.ver |-> IF x \in Merging!WrittenVariables(s)
                                          THEN v[x] + 1 + Merging!HighestVersion(s, x)
                                          ELSE c.ver[x]]
<1>1. \E new, pc : Joins(c, Merging!Emplace(c.val, names, new), pc, ver, a)
  BY Zenon DEF Merging!ApplySummary, Joins
<1>2. \E conc : Concretes(a, conc, d)
  BY Zenon DEF Merging!ApplySummaryConcretely, Concretes
<1>3. \A new : DOMAIN Merging!Emplace(c.val, names, new) = DOMAIN c.val \cup names
  BY DEF Merging!Emplace
<1>4. names = {<<n[1], n[2] + v[n[1]] + 1, c.cycle>> : n \in WrittenNames(s)}
  <2>1. Merging!WrittenNames(s) = WrittenNames(s)
    BY MergingReversion, Zenon
  <2>2. \A n \in WrittenNames(s) : R(n) = <<n[1], n[2] + v[n[1]] + 1, c.cycle>>
    BY MergingReversion, Zenon
  <2> HIDE DEF R
  <2> QED BY <2>1, <2>2
<1>5. ver = [x \in DOMAIN c.ver |-> IF x \in WrittenVariables(s)
                                    THEN v[x] + 1 + HighestVersion(s, x) ELSE c.ver[x]]
  <2>1. Merging!WrittenVariables(s) = WrittenVariables(s)
    BY MergingReversion, Zenon
  <2>2. \A x : Merging!HighestVersion(s, x) = HighestVersion(s, x)
    BY MergingReversion, Zenon
  <2> QED BY <2>1, <2>2
<1> HIDE DEF a, names, ver
<1>6. PICK new, pc : Joins(c, Merging!Emplace(c.val, names, new), pc, ver, a)
  BY <1>1
<1> DEFINE val == Merging!Emplace(c.val, names, new)
<1>7. DOMAIN val = DOMAIN c.val \cup names /\ Joins(c, val, pc, ver, a)
  BY <1>3, <1>6
<1> HIDE DEF val
<1>8. /\ Like(c, a) /\ Fields(a) /\ a.label = c.label /\ a.ver = ver
      /\ DOMAIN a.val = DOMAIN c.val \cup names
  <2>1. a = [c EXCEPT !.val = val, !.pc = pc, !.ver = ver]
    BY <1>7 DEF Joins
  <2>2. /\ a.val = val /\ a.ver = ver /\ a.cycle = c.cycle /\ a.stack = c.stack
        /\ a.label = c.label /\ Fields(a)
    BY <2>1 DEF Fields
  <2>3. DOMAIN ver = DOMAIN c.ver
    BY <1>5
  <2> QED BY <1>7, <2>2, <2>3 DEF Like
<1>9. PICK conc : Concretes(a, conc, d)
  BY <1>2
<1>10. /\ Fields(d) /\ d.cycle = a.cycle /\ d.stack = a.stack /\ d.label = a.label
       /\ d.val = a.val /\ d.ver = a.ver
  BY <1>8, <1>9, ConcretesOK
<1>11. Like(c, d) /\ d.label = c.label /\ DOMAIN d.val = DOMAIN c.val \cup names /\ d.ver = ver
  BY <1>8, <1>10 DEF Like
<1>12. \A x \in DOMAIN c.ver \cap WrittenVariables(s) :
         d.ver[x] = v[x] + 1 + HighestVersion(s, x)
  BY <1>5, <1>11
<1> QED BY <1>4, <1>11, <1>12 DEF Summarized

(* Every action of the engine keeps the invariant.                         *)
LEMMA MergingNextOK ==
  ASSUME ContextsOK, ControlOK, Merging!Next
  PROVE  Inv'
<1>1. CASE Merging!RunLoop
  BY <1>1, StaysOK DEF Merging!RunLoop, Merging!RunLoopUnless, Merging!contextVars, contextVars
<1>2. CASE Merging!EndOfStep
  BY <1>2, MergingLoop, FinishStepOK DEF Merging!EndOfStep
<1>3. CASE Merging!LocalTermination
  BY <1>3, LeaveOK DEF Merging!LocalTermination, Merging!Leave
<1>4. CASE Merging!BeginMerge
  BY <1>4, MergingLoop, StartMergeOK DEF Merging!BeginMerge
<1>5. CASE Merging!MergePair
  <2> DEFINE d == Merging!MergeConcolic(P, version, held[1], held[2])
  <2>1. Len(held) > 1 /\ MergeFirstTwo(d)
    BY <1>5, MergingLoop, Zenon DEF Merging!MergePair
  <2>2. Fields(held[1])
    BY <2>1, HeldFields
  <2>3. Joined(version, held[1], held[2], d)
    BY <2>2, MergingJoins
  <2> HIDE DEF d
  <2> QED BY <2>1, <2>3, MergeStepOK
<1>6. CASE Merging!EndMerge
  BY <1>6, MergingLoop, FinishMergeOK DEF Merging!EndMerge
<1>7. CASE Merging!HandlePassThroughVertex
  <2>1. PICK c \in explorer : /\ Pop(c) /\ version' = version
                              /\ Vertex(c).op = "none" /\ Vertex(c).type # "EXIT"
                              /\ Return(<<Merging!Passed(c)>>)
    BY <1>7, MergingLoop, MergingReads, Zenon
       DEF Merging!HandlePassThroughVertex, Merging!Execute
  <2> DEFINE d == Merging!Passed(c)
  <2>2. Moved(c, d) /\ d.label = SucceedingLabel(Graph(c), c.label)
    BY PoppedFields, MergingPasses
  <2>3. Return(<<d>>)
    BY <2>1
  <2> HIDE DEF d
  <2> QED BY <2>1, <2>2, <2>3, PassStepOK
<1>8. CASE Merging!VisitAssignmentInstruction
  <2>1. PICK c \in explorer :
          /\ Pop(c) /\ Vertex(c).op = "assign"
          /\ version' = [version EXCEPT ![Assigned(c)] = @ + 1]
          /\ Return(<<Merging!AssignConcolic(P, version, c, Assigned(c), Vertex(c).rhs, NextLabel(c))>>)
    BY <1>8, MergingLoop, MergingReads, Zenon DEF Merging!VisitAssignmentInstruction, Merging!Execute
  <2> DEFINE d == Merging!AssignConcolic(P, version, c, Assigned(c), Vertex(c).rhs, NextLabel(c))
  <2>2. Wrote(version, c, Assigned(c), d) /\ d.label = NextLabel(c)
    BY PoppedFields, MergingAssigns
  <2>3. Return(<<d>>)
    BY <2>1
  <2> HIDE DEF d
  <2> QED BY <2>1, <2>2, <2>3, WriteStepOK
<1>9. CASE Merging!VisitCallInstruction
  <2>1. PICK c \in explorer :
          /\ Pop(c) /\ version' = version /\ Merging!Vertex(c).op = "call"
          /\ \/ phase' = "aborted" /\ UNCHANGED <<held, pending>>
             \/ Return(<<[Merging!Called(c) EXCEPT
                            !.label = Merging!Target(Merging!Graph(c), c.label, "CALL")]>>)
             \/ /\ Merging!FindConcretelyApplicableSummaries(P, Merging!Called(c)) # {}
                /\ held' = <<Merging!Called(c)>>
                /\ todo' = Merging!FindConcretelyApplicableSummaries(P, Merging!Called(c))
                /\ phase' = "summarize" /\ pending' = pending
    BY <1>9, MergingLoop, Zenon DEF Merging!VisitCallInstruction, Merging!Execute
  <2> DEFINE d == Merging!Called(c)
             l == Merging!Target(Merging!Graph(c), c.label, "CALL")
             e == [d EXCEPT !.label = l]
             applicable == Merging!FindConcretelyApplicableSummaries(P, d)
  <2>2. l = Target(Graph(c), c.label, "CALL") /\ Vertex(c).op = "call"
    BY <2>1, MergingReads
  <2>3. Entered(c, Vertex(c).instance, Target(Graph(c), c.label, "CALL_TO_RETURN"), d)
    BY PoppedFields, MergingCalls
  <2>4. applicable \subseteq DOMAIN SummariesAt(P, d)
    BY MergingFinds
  <2>5. \/ phase' = "aborted" /\ UNCHANGED <<held, pending>>
        \/ Return(<<e>>)
        \/ /\ applicable # {} /\ held' = <<d>> /\ todo' = applicable
           /\ phase' = "summarize" /\ pending' = pending
    BY <2>1
  <2> HIDE DEF d, l, applicable
  <2>6. Moved(d, e) /\ e.label = l
    BY <2>3 DEF Entered, Fields, Moved, Like
  <2> HIDE DEF e
  <2>7. CASE phase' = "aborted" /\ UNCHANGED <<held, pending>>
    BY <2>1, <2>7, LeaveOK DEF Pop
  <2>8. CASE Return(<<e>>)
    BY <2>1, <2>2, <2>3, <2>6, <2>8, CallStepOK
  <2>9. CASE /\ applicable # {} /\ held' = <<d>> /\ todo' = applicable
             /\ phase' = "summarize" /\ pending' = pending
    <3>1. ContextOK(P, version, d) /\ d.cycle = cycle /\ Depth(d) > 1
      BY <2>1, <2>2, <2>3, CalleeOK
    <3> QED BY <2>1, <2>4, <2>9, <3>1, HoldOK
  <2> QED BY <2>5, <2>7, <2>8, <2>9
<1>10. CASE Merging!ApplyNextSummary
  <2>1. phase = "summarize" /\ Len(held) = 1
    BY <1>10 DEF Merging!ApplyNextSummary, ControlOK, PhasesOK
  <2>2. PICK k \in todo :
          /\ \E values \in Merging!SummaryValues(P, held[1], k) :
               LET c == held[1]
                   s == Merging!SummariesAt(P, c)[k]
                   a == Merging!ApplySummaryConcretely(P, version, c, s, values)
               IN  /\ pending' = Append(pending, Merging!Returned(a))
                   /\ version' = [x \in DOMAIN version |->
                                    IF x \in Merging!WrittenVariables(s) THEN a.ver[x]
                                                                         ELSE version[x]]
                   /\ \E crashes : phase' = IF crashes THEN "aborted"
                                            ELSE IF todo = {k} THEN "dispatch" ELSE phase
          /\ todo' = todo \ {k}
          /\ held' = IF todo = {k} THEN <<>> ELSE held
    <3>1. Merging!P = P
      BY MergingLoop
    <3>2. PICK k \in todo :
            /\ \E values \in Merging!SummaryValues(Merging!P, held[1], k) :
                 LET c == held[1]
                     s == Merging!SummariesAt(Merging!P, c)[k]
                     a == Merging!ApplySummaryConcretely(Merging!P, version, c, s, values)
                     path == <<covered>> \o s.literals
                     taken == UNION {Merging!BranchesTaken(Merging!Graph(c), path[i], path[i + 1]) :
                                       i \in 1 .. Len(s.literals)}
                     crashes == ~(taken \subseteq branches) /\ Merging!PathWorlds(Merging!P, a) = {}
                 IN  /\ pending' = Append(pending, Merging!Returned(a))
                     /\ version' = [x \in DOMAIN version |->
                                      IF x \in Merging!WrittenVariables(s) THEN a.ver[x]
                                                                           ELSE version[x]]
                     /\ phase' = IF crashes THEN "aborted"
                                 ELSE IF todo = {k} THEN "dispatch" ELSE phase
            /\ todo' = todo \ {k}
            /\ held' = IF todo = {k} THEN <<>> ELSE held
      BY <1>10, Zenon DEF Merging!ApplyNextSummary
    <3> QED BY <3>1, <3>2, ZenonT(60)
  <2>3. PICK values :
           LET s == SummariesAt(P, held[1])[k]
               a == Merging!ApplySummaryConcretely(P, version, held[1], s, values)
           IN  /\ pending' = Append(pending, Merging!Returned(a))
               /\ version' = [x \in DOMAIN version |->
                                IF x \in WrittenVariables(s) THEN a.ver[x] ELSE version[x]]
               /\ \E crashes : phase' = IF crashes THEN "aborted"
                                        ELSE IF todo = {k} THEN "dispatch" ELSE phase
    <3>1. Merging!SummariesAt(P, held[1]) = SummariesAt(P, held[1])
      BY MergingSummaries
    <3>2. \A s : Merging!WrittenVariables(s) = WrittenVariables(s)
      BY MergingReversion, Zenon
    <3> QED BY <2>2, <3>1, <3>2, Zenon
  <2>4. UNCHANGED <<prog, cycle, explorer, merger, succeeding>>
    BY <1>10 DEF Merging!ApplyNextSummary
  <2> DEFINE s == SummariesAt(P, held[1])[k]
             a == Merging!ApplySummaryConcretely(P, version, held[1], s, values)
             d == Merging!Returned(a)
  <2>5. Fields(held[1])
    BY <2>1, HeldFields
  <2>6. Summarized(version, held[1], s, a)
    BY <2>5, MergingApplies
  <2>7. Exited(a, d)
    BY <2>6, MergingCalls DEF Summarized, Like
  <2>8. /\ pending' = Append(pending, d)
        /\ version' = [x \in DOMAIN version |->
                         IF x \in WrittenVariables(s) THEN a.ver[x] ELSE version[x]]
        /\ phase' = (IF todo = {k} THEN "dispatch" ELSE phase) \/ phase' = "aborted"
        /\ todo' = todo \ {k}
        /\ held' = (IF todo = {k} THEN <<>> ELSE held)
        /\ UNCHANGED <<prog, cycle, explorer, merger, succeeding>>
    BY <2>2, <2>3, <2>4
  <2>9. s = SummariesAt(P, held[1])[k]
    OBVIOUS
  <2> HIDE DEF a, d, s
  <2> QED BY <2>1, <2>6, <2>7, <2>8, <2>9, ApplyStepOK
<1>11. CASE Merging!VisitIfInstruction
  <2>1. PICK c \in explorer :
          /\ Pop(c) /\ version' = version /\ Vertex(c).op = "if"
          /\ \E fork \in Merging!ForkOther(P, Graph(c), c, Vertex(c).cond) :
               Return(<<Merging!Follow(Graph(c), c, Vertex(c).cond)>> \o fork)
    BY <1>11, MergingLoop, MergingReads, Zenon
       DEF Merging!VisitIfInstruction, Merging!Execute
  <2>2. PICK fork \in Merging!ForkOther(P, Graph(c), c, Vertex(c).cond) :
          Return(<<Merging!Follow(Graph(c), c, Vertex(c).cond)>> \o fork)
    BY <2>1
  <2> DEFINE contexts == <<Merging!Follow(Graph(c), c, Vertex(c).cond)>> \o fork
  <2>3. IsSeq(contexts) /\ \A d \in RangeOf(contexts) :
          Moved(c, d) /\ \E holds : d.label = BranchTarget(Graph(c), c, holds)
    BY PoppedFields, MergingBranches
  <2>4. Return(contexts)
    BY <2>2
  <2> HIDE DEF contexts
  <2> QED BY <2>1, <2>3, <2>4, BranchStepOK
<1>12. CASE Merging!HandleProgramExitVertex
  <2>1. PICK c \in explorer :
          /\ Pop(c) /\ Vertex(c).type = "EXIT" /\ Graph(c).type = "PROGRAM"
          /\ version' = [x \in DOMAIN version |-> 0]
          /\ \E inputs : Return(<<Merging!NextConcolicCycle(P, c, inputs)>>)
    BY <1>12, MergingLoop, MergingReads, Zenon DEF Merging!HandleProgramExitVertex, Merging!Execute
  <2>2. PICK inputs : Return(<<Merging!NextConcolicCycle(P, c, inputs)>>)
    BY <2>1
  <2> DEFINE d == Merging!NextConcolicCycle(P, c, inputs)
  <2>3. Advanced(P, c, d)
    BY PoppedFields, MergingAdvances
  <2>4. Return(<<d>>)
    BY <2>2
  <2> HIDE DEF d
  <2> QED BY <2>1, <2>3, <2>4, ExitStepOK
<1>13. CASE Merging!HandleFunctionBlockExitVertex
  <2>1. PICK c \in explorer : /\ Pop(c) /\ version' = version /\ Graph(c).type = "FUNCTION_BLOCK"
                              /\ Return(<<Merging!Returned(c)>>)
    BY <1>13, MergingLoop, MergingReads, Zenon DEF Merging!HandleFunctionBlockExitVertex, Merging!Execute
  <2> DEFINE d == Merging!Returned(c)
  <2>2. Exited(c, d)
    BY PoppedFields, MergingCalls
  <2>3. Return(<<d>>)
    BY <2>1
  <2> HIDE DEF d
  <2> QED BY <2>1, <2>2, <2>3, ReturnStepOK
<1>14. CASE Merging!Dispatch
  BY <1>14, MergingLoop, DispatchHeadOK DEF Merging!Dispatch
<1>15. CASE Merging!DispatchCrashes
  BY <1>15, StaysOK DEF Merging!DispatchCrashes, Merging!contextVars, contextVars
<1>16. CASE Merging!TimeOut
  BY <1>16, StaysOK DEF Merging!TimeOut, Merging!PassTimeOut, Merging!contextVars, contextVars
<1>17. CASE Merging!Stopped
  BY <1>17, StaysOK DEF Merging!Stopped, Merging!vars, Merging!contextVars, contextVars
<1> QED BY <1>1, <1>2, <1>3, <1>4, <1>5, <1>6, <1>7, <1>8, <1>9, <1>10, <1>11, <1>12, <1>13,
           <1>14, <1>15, <1>16, <1>17 DEF Merging!Next, Merging!EngineStep

-----------------------------------------------------------------------------
(* The initial states.                                                     *)

(* What the initial contexts have in common.                               *)
Starts(p, c) ==
  /\ Fields(c)
  /\ c.cycle = 0 /\ c.label = MainCfg(p).entry /\ c.stack = <<MainFrame(p)>>
  /\ DOMAIN c.val = {<<x, 0, 0>> : x \in FlattenedInterface(p)}
  /\ DOMAIN c.ver = FlattenedInterface(p)

(* Every engine starts with one context at the entry of the program.       *)
LEMMA InitOK ==
  ASSUME prog \in Programs, NEW c, InitWith(c), Starts(P, c), merger = NoMerges
  PROVE  Inv
<1>1. WellFormed(P)
  BY ProgramOK
<1>2. MainScope(P) \in DOMAIN P.scopes /\ MainCfg(P).entry \in DOMAIN MainCfg(P).vertices
      /\ MainCfg(P).entry \in Nat
  BY <1>1 DEF WellFormed, MainCfg, WellFormedVertex
<1>3. EngineOK
  BY ShortSeq DEF EngineOK, InitWith, NoMerges
<1>4. StackOK(P, c.stack)
  <2>1. MainFrame(P) \in [scope : DOMAIN P.scopes, ret : Nat]
    BY <1>2 DEF MainFrame
  <2>2. Len(MainFrame(P).scope) = 1
    BY DEF MainFrame, MainScope
  <2> DEFINE F == [scope : DOMAIN P.scopes, ret : Nat]
  <2>3. MainFrame(P) \in F
    BY <2>1
  <2> HIDE DEF F
  <2>4. /\ c.stack \in Seq(F) /\ c.stack # <<>> /\ DOMAIN c.stack = {1}
        /\ c.stack[1] = MainFrame(P)
    BY <2>3 DEF Starts
  <2>5. c.stack \in Seq([scope : DOMAIN P.scopes, ret : Nat])
    BY <2>4 DEF F
  <2> QED BY <2>2, <2>4, <2>5 DEF StackOK
<1>5. AtVertex(P, c)
  BY <1>2 DEF AtVertex, Scope, MainFrame, MainCfg, Starts
<1>6. version \in [FlattenedInterface(P) -> Nat]
      /\ \A x \in FlattenedInterface(P) : version[x] = 0
  BY DEF InitWith
<1>7. ContextOK(P, version, c)
  <2>1. ASSUME NEW x \in FlattenedInterface(P)
        PROVE  NameOK(P, version, 0, <<x, 0, 0>>)
    <3>1. 0 <= version[x] /\ 0 \in Nat
      BY <1>6
    <3> QED BY <1>6, <3>1, NextNameOK
  <2>2. c.cycle = 0 /\ \A n \in DOMAIN c.val : NameOK(P, version, 0, n)
    BY <2>1 DEF Starts
  <2> QED BY <1>4, <2>2 DEF Starts, Fields, ContextOK
<1>8. InMerger = {} /\ MergerIsEmpty /\ explorer = {c} /\ Live = {c}
      /\ RangeOf(held) = {} /\ RangeOf(pending) = {} /\ succeeding = {}
      /\ held = <<>> /\ pending = <<>> /\ phase = "run" /\ cycle = 0 /\ c.cycle = 0
      /\ \A m \in DOMAIN merger : RangeOf(merger[m]) = {}
  BY ShortSeq DEF InitWith, NoMerges, InMerger, MergerIsEmpty, Live, Starts
<1>9. ContextsOK /\ LabelsOK /\ CyclesOK /\ PhasesOK /\ MergerOK /\ ExitOK
  BY <1>5, <1>6, <1>7, <1>8 DEF ContextsOK, LabelsOK, CyclesOK, PhasesOK, MergerOK, ExitOK
<1> QED BY <1>3, <1>9 DEF Inv, ControlOK

(* The initial state of the engine of se/ahorn.                            *)
LEMMA AhornInitOK == Ahorn!Init => Inv
<1> SUFFICES ASSUME Ahorn!Init PROVE Inv
  OBVIOUS
<1> DEFINE a == Ahorn!InitialContext(P)
           c == Ahorn!InitialConcolicContext(P)
<1>1. Ahorn!MainCfg(P) = MainCfg(P) /\ Ahorn!FlattenedInterface(P) = FlattenedInterface(P)
      /\ Ahorn!MainScope(P) = MainScope(P)
  BY Zenon DEF Ahorn!MainCfg, MainCfg, Ahorn!MainScope, MainScope, Ahorn!FlattenedInterface,
     FlattenedInterface, Ahorn!CfgOf, CfgOf
<1>2. InitWith(c) /\ prog \in Programs
  BY <1>1, AhornLoop, Zenon DEF Ahorn!Init, Ahorn!InitWith, InitWith
<1>3. Ahorn!MergePoints(P) = MergePoints(P)
  <2>1. \A x : Ahorn!CfgOf(P, x) = CfgOf(P, x)
    BY Zenon DEF Ahorn!CfgOf, CfgOf
  <2>2. \A g, l : Ahorn!IsJoin(g, l) <=> IsJoin(g, l)
    <3>1. \A g, l : Ahorn!IncomingEdges(g, l) = IncomingEdges(g, l)
      BY Zenon DEF Ahorn!IncomingEdges, IncomingEdges
    <3>2. \A S : Ahorn!Cardinality(S) = Cardinality(S)
      BY Zenon DEF Ahorn!Cardinality, Cardinality
    <3> QED BY <3>1, <3>2, Zenon DEF Ahorn!IsJoin, IsJoin
  <2>3. \A x : Ahorn!ReturnLabels(P, x) = ReturnLabels(P, x)
    BY Zenon DEF Ahorn!ReturnLabels, ReturnLabels, Ahorn!CfgOf, CfgOf, Ahorn!MainCfg, MainCfg,
       Ahorn!MainScope, MainScope, Ahorn!Target, Target, Ahorn!OutgoingEdges, OutgoingEdges
  <2>4. ASSUME NEW x
        PROVE  {k \in DOMAIN CfgOf(P, x).vertices : Ahorn!IsJoin(CfgOf(P, x), k)}
                 = {k \in DOMAIN CfgOf(P, x).vertices : IsJoin(CfgOf(P, x), k)}
    BY <2>2
  <2> QED BY <2>1, <2>3, <2>4 DEF Ahorn!MergePoints, MergePoints
<1>4. merger = NoMerges
  BY <1>3, AhornLoop, Zenon DEF Ahorn!Init, Ahorn!InitializeMerger, Ahorn!NoMerges, NoMerges
<1>5. Starts(P, a)
  <2>1. /\ a.cycle = 0 /\ a.label = MainCfg(P).entry /\ a.stack = <<MainFrame(P)>>
        /\ DOMAIN a.val = {<<x, 0, 0>> : x \in FlattenedInterface(P)}
        /\ DOMAIN a.ver = FlattenedInterface(P) /\ Fields(a)
    BY <1>1 DEF Ahorn!InitialContext, MainFrame, Fields
  <2> QED BY <2>1 DEF Starts
<1> HIDE DEF a
<1>6. Starts(P, c)
  <2>1. /\ c.cycle = a.cycle /\ c.label = a.label /\ c.stack = a.stack
        /\ c.val = a.val /\ c.ver = a.ver /\ Fields(c)
    BY DEF Ahorn!InitialConcolicContext, Fields, a
  <2> QED BY <1>5, <2>1 DEF Starts
<1> HIDE DEF c
<1> QED BY <1>2, <1>4, <1>6, InitOK

(* The initial state of the engine of se/etfa-no-merge.                    *)
LEMMA MergingInitOK == Merging!Init => Inv
<1> SUFFICES ASSUME Merging!Init PROVE Inv
  OBVIOUS
<1> DEFINE a == Merging!InitialContext(P)
           c == Merging!InitialConcolicContext(P)
<1>1. Merging!MainCfg(P) = MainCfg(P) /\ Merging!FlattenedInterface(P) = FlattenedInterface(P)
      /\ Merging!MainScope(P) = MainScope(P)
  BY Zenon DEF Merging!MainCfg, MainCfg, Merging!MainScope, MainScope, Merging!FlattenedInterface,
     FlattenedInterface, Merging!CfgOf, CfgOf
<1>2. InitWith(c) /\ prog \in Programs
  BY <1>1, MergingLoop, Zenon DEF Merging!Init, Merging!InitWith, InitWith
<1>3. Merging!MergePoints(P) = MergePoints(P)
  <2>1. \A x : Merging!CfgOf(P, x) = CfgOf(P, x)
    BY Zenon DEF Merging!CfgOf, CfgOf
  <2>2. \A g, l : Merging!IsJoin(g, l) <=> IsJoin(g, l)
    <3>1. \A g, l : Merging!IncomingEdges(g, l) = IncomingEdges(g, l)
      BY Zenon DEF Merging!IncomingEdges, IncomingEdges
    <3>2. \A S : Merging!Cardinality(S) = Cardinality(S)
      BY Zenon DEF Merging!Cardinality, Cardinality
    <3> QED BY <3>1, <3>2, Zenon DEF Merging!IsJoin, IsJoin
  <2>3. \A x : Merging!ReturnLabels(P, x) = ReturnLabels(P, x)
    BY Zenon DEF Merging!ReturnLabels, ReturnLabels, Merging!CfgOf, CfgOf, Merging!MainCfg, MainCfg,
       Merging!MainScope, MainScope, Merging!Target, Target, Merging!OutgoingEdges, OutgoingEdges
  <2>4. ASSUME NEW x
        PROVE  {k \in DOMAIN CfgOf(P, x).vertices : Merging!IsJoin(CfgOf(P, x), k)}
                 = {k \in DOMAIN CfgOf(P, x).vertices : IsJoin(CfgOf(P, x), k)}
    BY <2>2
  <2> QED BY <2>1, <2>3, <2>4 DEF Merging!MergePoints, MergePoints
<1>4. merger = NoMerges
  BY <1>3, MergingLoop, Zenon DEF Merging!Init, Merging!NoMerges, NoMerges
<1>5. Starts(P, a)
  <2>1. /\ a.cycle = 0 /\ a.label = MainCfg(P).entry /\ a.stack = <<MainFrame(P)>>
        /\ DOMAIN a.val = {<<x, 0, 0>> : x \in FlattenedInterface(P)}
        /\ DOMAIN a.ver = FlattenedInterface(P) /\ Fields(a)
    BY <1>1 DEF Merging!InitialContext, MainFrame, Fields
  <2> QED BY <2>1 DEF Starts
<1> HIDE DEF a
<1>6. Starts(P, c)
  <2>1. /\ c.cycle = a.cycle /\ c.label = a.label /\ c.stack = a.stack
        /\ c.val = a.val /\ c.ver = a.ver /\ Fields(c)
    BY DEF Merging!InitialConcolicContext, Fields, a
  <2> QED BY <1>5, <2>1 DEF Starts
<1> HIDE DEF c
<1> QED BY <1>2, <1>4, <1>6, InitOK

(* The initial state of the engine of se/oa.                               *)
LEMMA OaInitOK == Oa!Init => Inv
<1> SUFFICES ASSUME Oa!Init PROVE Inv
  OBVIOUS
<1> DEFINE a == Oa!InitialContext(P)
<1>1. Oa!MainCfg(P) = MainCfg(P) /\ Oa!FlattenedInterface(P) = FlattenedInterface(P)
      /\ Oa!MainScope(P) = MainScope(P)
  BY Zenon DEF Oa!MainCfg, MainCfg, Oa!MainScope, MainScope, Oa!FlattenedInterface,
     FlattenedInterface, Oa!CfgOf, CfgOf
<1>2. InitWith(a) /\ prog \in Programs
  BY <1>1, OaLoop, Zenon DEF Oa!Init, Oa!InitWith, InitWith
<1>3. Oa!MergePoints(P) = MergePoints(P)
  <2>1. \A x : Oa!CfgOf(P, x) = CfgOf(P, x)
    BY Zenon DEF Oa!CfgOf, CfgOf
  <2>2. \A g, l : Oa!IsJoin(g, l) <=> IsJoin(g, l)
    <3>1. \A g, l : Oa!IncomingEdges(g, l) = IncomingEdges(g, l)
      BY Zenon DEF Oa!IncomingEdges, IncomingEdges
    <3>2. \A S : Oa!Cardinality(S) = Cardinality(S)
      BY Zenon DEF Oa!Cardinality, Cardinality
    <3> QED BY <3>1, <3>2, Zenon DEF Oa!IsJoin, IsJoin
  <2>3. \A x : Oa!ReturnLabels(P, x) = ReturnLabels(P, x)
    BY Zenon DEF Oa!ReturnLabels, ReturnLabels, Oa!CfgOf, CfgOf, Oa!MainCfg, MainCfg,
       Oa!MainScope, MainScope, Oa!Target, Target, Oa!OutgoingEdges, OutgoingEdges
  <2>4. ASSUME NEW x
        PROVE  {k \in DOMAIN CfgOf(P, x).vertices : Oa!IsJoin(CfgOf(P, x), k)}
                 = {k \in DOMAIN CfgOf(P, x).vertices : IsJoin(CfgOf(P, x), k)}
    BY <2>2
  <2> QED BY <2>1, <2>3, <2>4 DEF Oa!MergePoints, MergePoints
<1>4. merger = NoMerges
  BY <1>3, OaLoop, Zenon DEF Oa!Init, Oa!InitializeMerger, Oa!NoMerges, NoMerges
<1>5. Starts(P, a)
  <2>1. /\ a.cycle = 0 /\ a.label = MainCfg(P).entry /\ a.stack = <<MainFrame(P)>>
        /\ DOMAIN a.val = {<<x, 0, 0>> : x \in FlattenedInterface(P)}
        /\ DOMAIN a.ver = FlattenedInterface(P) /\ Fields(a)
    BY <1>1 DEF Oa!InitialContext, MainFrame, Fields
  <2> QED BY <2>1 DEF Starts
<1> HIDE DEF a
<1> QED BY <1>2, <1>4, <1>5, InitOK

-----------------------------------------------------------------------------
(* What an engine does when it has stopped, and what none of its steps     *)
(* does.                                                                   *)

(* The engine of se/ahorn has stopped for good.                            *)
LEMMA AhornStops ==
  ASSUME Stopping, Ahorn!Next
  PROVE  UNCHANGED vars
<1>1. phase \notin {"run", "step", "merge", "summarize", "dispatch"}
  BY DEF Stopping
<1>2. ASSUME \/ Ahorn!RunLoop \/ Ahorn!EndOfStep \/ Ahorn!LocalTermination \/ Ahorn!BeginMerge
         \/ Ahorn!MergePair \/ Ahorn!EndMerge \/ Ahorn!Dispatch
      PROVE  FALSE
  BY <1>1, <1>2 DEF
       Ahorn!RunLoop, Ahorn!EndOfStep, Ahorn!LocalTermination, Ahorn!BeginMerge,
        Ahorn!MergePair, Ahorn!EndMerge, Ahorn!Dispatch, Ahorn!RunLoopUnless,
        Ahorn!FinishStep, Ahorn!StartMerge, Ahorn!MergeFirstTwo, Ahorn!FinishMerge,
        Ahorn!DispatchHead
<1>3. ASSUME \/ Ahorn!HandleProgramEntryVertex \/ Ahorn!HandleFunctionBlockEntryVertex
         \/ Ahorn!VisitAssignmentInstruction \/ Ahorn!VisitHavocInstruction
         \/ Ahorn!VisitCallInstruction \/ Ahorn!VisitIfInstruction
         \/ Ahorn!HandleProgramExitVertex \/ Ahorn!HandleFunctionBlockExitVertex
      PROVE  FALSE
  <2>1. \E c : Ahorn!Pop(c)
    BY <1>3, Zenon DEF Ahorn!Execute,
       Ahorn!HandleProgramEntryVertex, Ahorn!HandleFunctionBlockEntryVertex,
          Ahorn!VisitAssignmentInstruction, Ahorn!VisitHavocInstruction,
          Ahorn!VisitCallInstruction, Ahorn!VisitIfInstruction,
          Ahorn!HandleProgramExitVertex, Ahorn!HandleFunctionBlockExitVertex
  <2> QED BY <1>1, <2>1 DEF Ahorn!Pop
<1>4. ASSUME Ahorn!TimeOut
      PROVE  FALSE
  BY <1>4 DEF Stopping, Ahorn!TimeOut, Ahorn!PassTimeOut
<1>5. Ahorn!Stopped
  BY <1>2, <1>3, <1>4 DEF Ahorn!Next, Ahorn!EngineStep
<1> QED BY <1>5 DEF Ahorn!Stopped, Ahorn!vars, Ahorn!contextVars, Ahorn!coverageVars,
             vars, contextVars, coverageVars

(* The engine of se/etfa-no-merge has stopped for good.                    *)
LEMMA MergingStops ==
  ASSUME Stopping, Merging!Next
  PROVE  UNCHANGED vars
<1>1. phase \notin {"run", "step", "merge", "summarize", "dispatch"}
  BY DEF Stopping
<1>2. ASSUME \/ Merging!RunLoop \/ Merging!EndOfStep \/ Merging!LocalTermination
         \/ Merging!BeginMerge \/ Merging!MergePair \/ Merging!EndMerge \/ Merging!Dispatch
         \/ Merging!DispatchCrashes
      PROVE  FALSE
  BY <1>1, <1>2 DEF
       Merging!RunLoop, Merging!EndOfStep, Merging!LocalTermination, Merging!BeginMerge,
        Merging!MergePair, Merging!EndMerge, Merging!Dispatch, Merging!DispatchCrashes,
        Merging!RunLoopUnless, Merging!FinishStep, Merging!StartMerge,
        Merging!MergeFirstTwo, Merging!FinishMerge, Merging!DispatchHead
<1>3. ASSUME \/ Merging!HandlePassThroughVertex \/ Merging!VisitAssignmentInstruction
         \/ Merging!VisitIfInstruction \/ Merging!VisitCallInstruction
         \/ Merging!HandleProgramExitVertex \/ Merging!HandleFunctionBlockExitVertex
      PROVE  FALSE
  <2>1. \E c : Merging!Pop(c)
    BY <1>3, Zenon DEF Merging!Execute,
       Merging!HandlePassThroughVertex, Merging!VisitAssignmentInstruction,
          Merging!VisitIfInstruction, Merging!VisitCallInstruction,
          Merging!HandleProgramExitVertex, Merging!HandleFunctionBlockExitVertex
  <2> QED BY <1>1, <2>1 DEF Merging!Pop
<1>4. ASSUME Merging!TimeOut
      PROVE  FALSE
  BY <1>4 DEF Stopping, Merging!TimeOut, Merging!PassTimeOut
<1>5. ASSUME Merging!ApplyNextSummary
      PROVE  FALSE
  <2>1. phase = "summarize"
    BY <1>5, Zenon DEF Merging!ApplyNextSummary
  <2> QED BY <1>1, <2>1
<1>6. Merging!Stopped
  BY <1>2, <1>3, <1>4, <1>5 DEF Merging!Next, Merging!EngineStep
<1> QED BY <1>6 DEF Merging!Stopped, Merging!vars, Merging!contextVars, Merging!coverageVars,
             vars, contextVars, coverageVars

(* The engine of se/oa has stopped for good.                               *)
LEMMA OaStops ==
  ASSUME Stopping, Oa!Next
  PROVE  UNCHANGED vars
<1>1. phase \notin {"run", "step", "merge", "summarize", "dispatch"}
  BY DEF Stopping
<1>2. ASSUME \/ Oa!RunLoop \/ Oa!EndOfStep \/ Oa!LocalTermination \/ Oa!BeginMerge \/ Oa!MergePair
         \/ Oa!EndMerge \/ Oa!Dispatch
      PROVE  FALSE
  BY <1>1, <1>2 DEF
       Oa!RunLoop, Oa!EndOfStep, Oa!LocalTermination, Oa!BeginMerge, Oa!MergePair,
        Oa!EndMerge, Oa!Dispatch, Oa!RunLoopUnless, Oa!FinishStep, Oa!StartMerge,
        Oa!MergeFirstTwo, Oa!FinishMerge, Oa!DispatchHead
<1>3. ASSUME \/ Oa!HandleEntryVertex \/ Oa!VisitAssignmentInstruction \/ Oa!VisitHavocInstruction
         \/ Oa!VisitCallInstruction \/ Oa!VisitIfInstruction \/ Oa!HandleProgramExitVertex
         \/ Oa!HandleFunctionBlockExitVertex
      PROVE  FALSE
  <2>1. \E c : Oa!Pop(c)
    BY <1>3, Zenon DEF Oa!Execute,
       Oa!HandleEntryVertex, Oa!VisitAssignmentInstruction, Oa!VisitHavocInstruction,
          Oa!VisitCallInstruction, Oa!VisitIfInstruction, Oa!HandleProgramExitVertex,
          Oa!HandleFunctionBlockExitVertex
  <2> QED BY <1>1, <2>1 DEF Oa!Pop
<1>4. Oa!Stopped
  BY <1>2, <1>3 DEF Oa!Next, Oa!EngineStep
<1> QED BY <1>4 DEF Oa!Stopped, Oa!vars, Oa!contextVars, Oa!coverageVars,
             vars, contextVars, coverageVars

(* An engine is not given another program.                                 *)
LEMMA PathsKeepProgram ==
  ASSUME Paths!Next
  PROVE  prog' = prog
<1>1. ASSUME \/ Paths!RunLoop \/ Paths!EndOfStep \/ Paths!LocalTermination \/ Paths!BeginMerge
         \/ Paths!MergePair \/ Paths!EndMerge \/ Paths!Dispatch \/ Paths!DispatchCrashes
      PROVE  prog' = prog
  BY <1>1 DEF Paths!Leave,
     Paths!RunLoop, Paths!EndOfStep, Paths!LocalTermination, Paths!BeginMerge,
        Paths!MergePair, Paths!EndMerge, Paths!Dispatch, Paths!DispatchCrashes,
        Paths!RunLoopUnless, Paths!FinishStep, Paths!StartMerge, Paths!MergeFirstTwo,
        Paths!FinishMerge, Paths!DispatchHead
<1>2. ASSUME \/ Paths!HandlePassThroughVertex \/ Paths!VisitAssignmentInstruction
         \/ Paths!VisitIfInstruction \/ Paths!VisitCallInstruction
         \/ Paths!HandleProgramExitVertex \/ Paths!HandleFunctionBlockExitVertex
      PROVE  prog' = prog
  <2>1. \E c : Paths!Pop(c)
    BY <1>2, Zenon DEF Paths!Execute,
       Paths!HandlePassThroughVertex, Paths!VisitAssignmentInstruction,
          Paths!VisitIfInstruction, Paths!VisitCallInstruction,
          Paths!HandleProgramExitVertex, Paths!HandleFunctionBlockExitVertex
  <2> QED BY <2>1 DEF Paths!Pop
<1>3. Paths!TimeOut \/ Paths!Stopped => prog' = prog
  BY DEF Paths!TimeOut, Paths!PassTimeOut, Paths!Stopped, Paths!vars
<1>4. Paths!ApplyNextSummary => prog' = prog
  <2>1. Paths!ApplyNextSummary =>
          UNCHANGED <<prog, cycle, explorer, merger, succeeding, source, timedOut>>
    BY Zenon DEF Paths!ApplyNextSummary
  <2> QED BY <2>1
<1> QED BY <1>1, <1>2, <1>3, <1>4 DEF Paths!Next, Paths!EngineStep

-----------------------------------------------------------------------------
(* The theorems.                                                           *)

(* The initial states of all engines.                                      *)
LEMMA EnginesInitOK == Init => Inv
<1>1. Paths!Init /\ Given("paths") => Inv
  BY DEF Inv
<1> QED BY <1>1, AhornInitOK, MergingInitOK, OaInitOK DEF Init

(* All steps of all engines.                                               *)
LEMMA EnginesNextOK == Inv /\ [Next]_vars => Inv'
<1> SUFFICES ASSUME Inv, [Next]_vars PROVE Inv'
  OBVIOUS
<1>1. CASE UNCHANGED vars
  <2>1. /\ P' = P /\ prog' = prog /\ phase' = phase /\ cycle' = cycle /\ todo' = todo
        /\ explorer' = explorer /\ merger' = merger /\ version' = version
        /\ succeeding' = succeeding /\ held' = held /\ pending' = pending
        /\ Live' = Live /\ InMerger' = InMerger /\ UNCHANGED contextVars
    BY <1>1 DEF vars, contextVars, P, Live, InMerger
  <2>2. CASE Given("paths")
    BY <2>1, <2>2 DEF Inv, Given
  <2>3. CASE ~Given("paths") /\ Stopping
    <3>1. ContextsOK' /\ Stopping'
      BY <2>1, <2>3 DEF Inv, ContextsOK, Stopping
    <3> QED BY <3>1 DEF Inv
  <2>4. CASE ~Given("paths") /\ ~Stopping
    BY <2>1, <2>4, StaysOK DEF Inv
  <2> QED BY <2>2, <2>3, <2>4
<1>2. CASE Given("paths") /\ Paths!Next
  BY <1>2, PathsKeepProgram DEF Inv, Given
<1>3. CASE Given("ahorn") /\ Ahorn!Next
  <2>1. ~Given("paths")
    BY <1>3 DEF Given
  <2> QED BY <1>1, <1>3, <2>1, AhornNextOK, AhornStops DEF Inv
<1>4. CASE Given("merging") /\ Merging!Next
  <2>1. ~Given("paths")
    BY <1>4 DEF Given
  <2> QED BY <1>1, <1>4, <2>1, MergingNextOK, MergingStops DEF Inv
<1>5. CASE Given("oa") /\ Oa!Next
  <2>1. ~Given("paths")
    BY <1>5 DEF Given
  <2> QED BY <1>1, <1>5, <2>1, OaNextOK, OaStops DEF Inv
<1> QED BY <1>1, <1>2, <1>3, <1>4, <1>5 DEF Next

(* In every state of the engines of se/ahorn, se/etfa-no-merge (with       *)
(* merging) and se/oa, the contexts have consistent frames, labels, cycles *)
(* and names, they wait at the merge point they have reached, and one that *)
(* has reached the exit of the program is the last of its cycle.           *)
THEOREM EnginesInvHolds == Spec => []Inv
BY EnginesInitOK, EnginesNextOK, PTL DEF Spec

(* State::setSymbolicValuation of these engines never meets a name that has*)
(* a value: no context of the current cycle has a name with a version that *)
(* Executor::_flattened_name_to_version has not given out, although the    *)
(* executor starts the versions over at the exit of the program.           *)
THEOREM EnginesVersionsFresh == Spec => []VersionsAreFresh
<1>1. Inv => VersionsAreFresh
  BY DEF Inv, VersionsAreFresh, ContextsOK, ContextOK, NameOK
<1> QED BY <1>1, EnginesInvHolds, PTL
============================================================================
