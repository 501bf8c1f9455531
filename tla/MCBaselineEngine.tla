------------------------- MODULE MCBaselineEngine ------------------------
(* The baseline engine on the graphs of the catalogue.                     *)
EXTENDS BaselineEngine, Simulation, MCPrograms

MCDirectCatalogue == DirectCatalogue

Trace == Tabulated([q \in Programs |-> RunsOf(Code[q])])

Live == {explorer[i] : i \in DOMAIN explorer} \cup {succeeding[i] : i \in DOMAIN succeeding}

(* Every context is a real one: some run that satisfies the path constraint*)
(* of all cycles so far is where the context is, and has both its concrete *)
(* and its symbolic values.  The constants that replace symbolic values at *)
(* the end of a cycle, and the models that overwrite the concrete store in *)
(* a fork, each put values of different origin together.                   *)
ContextsAreRealizable ==
  \A c \in Live : \E w \in PathWorlds(P, c) :
    /\ Position(c) \in DOMAIN Trace[prog][w]
    /\ LET env == Trace[prog][w][Position(c)].env
       IN  \A x \in DOMAIN env :
             /\ c.conc[CurrentName(c, x)] = env[x]
             /\ (w \in CurrentValue(c, x).worlds) = env[x]

(* The branches taken in the cycles before cycle n.                        *)
TakenBefore(w, n) ==
  Trace[prog][w][<<n, MainCfg(P).entry,
                   <<[scope |-> MainScope(P), ret |-> MainCfg(P).entry]>> >>].taken

(* The first cycle is explored in full, before values are made concrete.   *)
FirstCycleIsComplete ==
  cycle > 0 => \A w \in Worlds(P) : TakenBefore(w, 1) \subseteq branches
==========================================================================
