-------------------------- MODULE EtfaInvariant --------------------------
(***************************************************************************)
(* The inductive invariant of the ETFA engine: what its contexts look like,*)
(* where the contexts of a cycle can be in each phase, why the one that    *)
(* reaches the exit of the program is alone, and what their stores know.   *)
(***************************************************************************)
EXTENDS EtfaEngine

(* A context is a record of the fields that SymbolicContext lists.         *)
ContextOK(p, c) ==
  /\ c = [cycle |-> c.cycle, label |-> c.label, stack |-> c.stack,
          val |-> c.val, pc |-> c.pc, ver |-> c.ver]
  /\ StackOK(p, c.stack)
  /\ c.ver \in [FlattenedInterface(p) -> Nat]

(* It is at a vertex of its topmost frame, unless a call has pushed a frame*)
(* and is applying summaries.                                              *)
ContextsOK ==
  /\ \A c \in Live : ContextOK(P, c)
  /\ \A c \in explorer \cup InMerger \cup RangeOf(pending) \cup succeeding : AtVertex(P, c)
  /\ phase # "summarize" => \A c \in RangeOf(held) : AtVertex(P, c)

(* The engine's own variables.                                             *)
EngineOK ==
  /\ prog \in Programs
  /\ phase \in Phases
  /\ cycle \in 0 .. CycleBound
  /\ phase \notin {"run", "done"} => cycle < CycleBound
  /\ version \in [FlattenedInterface(P) -> Nat]
  /\ DOMAIN merger = MergePoints(P)
  /\ \A m \in DOMAIN merger : IsSeq(merger[m])
  /\ IsSeq(held) /\ IsSeq(pending)
  /\ timedOut \in BOOLEAN

CoverageOK ==
  /\ source \in Statements(P)
  /\ covered \in Statements(P)
  /\ statements \subseteq Statements(P)
  /\ branches \subseteq Branches(P)

(* All contexts are of the current cycle until one has crossed the exit.   *)
CyclesOK ==
  /\ \A c \in explorer \cup InMerger \cup RangeOf(held) : c.cycle = cycle
  /\ \A c \in RangeOf(pending) : c.cycle \in {cycle, cycle + 1}
  /\ \A c \in succeeding : c.cycle = cycle + 1

(* Who holds contexts in which phase.                                      *)
PhasesOK ==
  /\ phase = "run" => MergerIsEmpty /\ succeeding = {}
  /\ phase \in {"run", "step"} => held = <<>> /\ pending = <<>>
  /\ phase = "merge" => explorer = {} /\ pending = <<>> /\ held # <<>>
  /\ phase = "summarize" =>
       /\ Len(held) = 1
       /\ Depth(held[1]) > 1
       /\ todo # {} /\ todo \subseteq DOMAIN SummariesAt(P, held[1])
       /\ \A c \in RangeOf(pending) : c.cycle = cycle
  /\ phase = "dispatch" => held = <<>>

(* Contexts wait at the merge point they have reached.                     *)
MergerOK == \A m \in DOMAIN merger : \A c \in RangeOf(merger[m]) : MergePoint(c) = m

AtProgramExit(c) == Depth(c) = 1 /\ c.label = MainCfg(P).exit

(* A context at the exit of the program is the last of its cycle, from the *)
(* merge that makes it until the next cycle begins.                        *)
ExitOK ==
  /\ \A c \in explorer : AtProgramExit(c) =>
       explorer = {c} /\ MergerIsEmpty /\ phase \notin {"dispatch", "summarize"}
  /\ phase = "merge" => \A c, d \in RangeOf(held) :
       MergePoint(c) = MergePoint(d) /\ (AtProgramExit(c) => MergerIsEmpty)
  /\ \A c \in RangeOf(pending) : c.cycle # cycle =>
       explorer = {} /\ MergerIsEmpty /\ held = <<>> /\ Len(pending) = 1
  /\ succeeding # {} =>
       /\ explorer = {} /\ MergerIsEmpty /\ held = <<>> /\ pending = <<>>
       /\ phase = "step"
       /\ \E c \in succeeding : succeeding = {c}

(* Where the contexts are.  Its heart is ExitOK, which depends on the order*)
(* in which Merger::merge picks merge points, on Merger::push taking every *)
(* context that reaches the exit and on Engine::step popping from the      *)
(* explorer before it merges.                                              *)
ControlInv ==
  /\ EngineOK
  /\ CoverageOK
  /\ ContextsOK
  /\ CyclesOK
  /\ PhasesOK
  /\ MergerOK
  /\ ExitOK

-----------------------------------------------------------------------------
(* The stores of the contexts.                                             *)

(* The terms of a context: its symbolic values and the literals of its path*)
(* constraint.                                                             *)
Terms(c) ==
  {c.val[n].term : n \in DOMAIN c.val} \cup {lit[1] : lit \in UNION c.pc}

(* State::_symbolic_valuations has every name that the code looks up in it:*)
(* the current name of every variable, and every name in a term.           *)
StoreIsClosed(p, c) ==
  /\ \A x \in FlattenedInterface(p) : CurrentName(c, x) \in DOMAIN c.val
  /\ \A t \in Terms(c) : IsTerm(t) /\ ArgumentsOf(t) \subseteq DOMAIN c.val

StoreOK(p, versions, c) ==
  /\ \A n \in DOMAIN c.val : NameOK(p, versions, c.cycle, n)
  /\ StoreIsClosed(p, c)

StoresOK == \A c \in Live : StoreOK(P, version, c)

(* What a name means is settled for good when it is made: no step gives it *)
(* another value, in whichever context it lives on.                        *)
MeaningsAreKept ==
  \A c \in Live : \A d \in Live' :
    \A n \in DOMAIN c.val \cap DOMAIN d.val : c.val[n] = d.val[n]

NamesKeepTheirMeaning == [][MeaningsAreKept]_vars

(* The inductive invariant: every action of the engine preserves it.       *)
Inv == ControlInv /\ StoresOK /\ NamesAgree
==========================================================================
