--------------------------- MODULE MCCbmcEngine --------------------------
(* The bounded model checker on the catalogue, against its concrete runs.  *)
EXTENDS CbmcEngine, Simulation, MCPrograms

MCCatalogue == Catalogue
MCDirectCatalogue == DirectCatalogue

Trace == Tabulated([q \in Programs |-> RunsOf(Code[q])])

Held == Live \cup succeeding

(* Whatever makes the literal of a context true is the concrete run of the *)
(* world at the vertex of the context, with the values that its names have *)
(* there: the equations that merges spread over the literals before a join *)
(* never mix two paths or leave a name open.                               *)
EncodingFollowsRuns ==
  \A c \in Held : \A s \in SolutionsOf(c) : \A w \in s.worlds :
    /\ Position(c) \in DOMAIN Trace[prog][w]
    /\ \A x \in DOMAIN c.ver :
         (w \in s.value[CurrentName(c, x)]) = Trace[prog][w][Position(c)].env[x]

(* Every run is encoded by exactly one of the contexts.                    *)
EncodingLosesNoRun ==
  phase \notin {"done", "aborted"} =>
    LET models == Tabulated([c \in Held |-> UNION {s.worlds : s \in SolutionsOf(c)}])
    IN  \A w \in Worlds(P) : Cardinality({c \in Held : w \in models[c]}) = 1

(* When the engine ends, the goals it has removed are the branch targets   *)
(* that some run reaches within the cycle bound, no more and no fewer.     *)
GoalsAreExact ==
  phase = "done" =>
    LET Reaches(w, g) == \E pos \in DOMAIN Trace[prog][w] :
          /\ pos[1] < CycleBound
          /\ pos[2] = g[2] /\ pos[3][Len(pos[3])].scope = g[1]
    IN  goals = {g \in Goals(P) : \A w \in Worlds(P) : ~Reaches(w, g)}
==========================================================================
