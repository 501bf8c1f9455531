-------------------------- MODULE MCLoopEngines ---------------------------
(* The engines with the common loop on programs of the catalogue.  The     *)
(* over-approximating engine gets them opened, the ahorn engine and it     *)
(* before the decision transformation.                                     *)
EXTENDS LoopCorrectness, MCPrograms

(* Which engine is given which programs.                                   *)
ProgramsOf ==
  [ahorn |-> {"toggle", "dead", "deadTold", "straight", "nested", "latch", "reassign", "noise",
              "set", "call", "branch", "twins"},
   merging |-> {"toggle", "dead", "straight", "nested", "latch", "reassign", "call", "branch",
                "twins", "callSummarized", "callTwin", "branchTwin", "echoTwin",
                "guardedTwin"},
   paths |-> {"toggle", "nested", "dead", "straight", "latch", "call"},
   oa |-> {"toggle", "dead", "straight", "set", "again"}]

Pairs == UNION {{<<e, n>> : n \in ProgramsOf[e]} : e \in DOMAIN ProgramsOf}

Name(pair) == pair[1] \o " " \o pair[2]

EnginePrograms == {Name(pair) : pair \in Pairs}

(* What Of gives for the pair behind each name.                            *)
ByName(Of(_)) ==
  Family(EnginePrograms, LAMBDA q : Of(CHOOSE pair \in Pairs : Name(pair) = q))

ProgramFor(pair) ==
  CASE pair[1] = "ahorn" -> DirectCatalogue[pair[2]]
    [] pair[1] = "oa"    -> [DirectCatalogue[pair[2]] EXCEPT !.open = TRUE]
    [] OTHER             -> Catalogue[pair[2]]

EngineCode == ByName(ProgramFor)
EngineNames == ByName(LAMBDA pair : pair[1])

(* In one of the programs the analysis has found the dead code.            *)
DeadLabels == ByName(LAMBDA pair : IF pair[2] = "deadTold" THEN {12} ELSE {})
DeadBranches == ByName(LAMBDA pair : IF pair[2] = "deadTold" THEN {<<11, TRUE>>} ELSE {})

(* TLC tabulates constant definitions, but not the ones a configuration    *)
(* gives to a constant, hence these names; the LET keeps the programs out  *)
(* of the statistics that TLC gathers for every use of the constant.       *)
MCEnginePrograms == EnginePrograms
MCAlphabet == <<"a", "b", "in", "m", "mem", "out", "st", "t", "w", "x", "y", "z">>
MCCode == LET code == EngineCode IN code
MCEngineOf == EngineNames
MCUnreachableLabels == DeadLabels
MCUnreachableBranches == DeadBranches
==========================================================================
