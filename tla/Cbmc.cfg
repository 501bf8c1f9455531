CONSTANTS
  CycleBound = 2
  MaxSteps = 60
  Code <- MCCatalogue
  Programs = {"choose", "dead", "straight", "rewrite", "latch", "three", "once", "toss", "toggle"}
SPECIFICATION Spec
INVARIANTS
  EncodingFollowsRuns
  EncodingLosesNoRun
  GoalsAreExact
