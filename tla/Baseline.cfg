CONSTANTS
  CycleBound = 2
  MaxSteps = 60
  Code <- MCDirectCatalogue
  Programs = {"toggle", "set", "again", "call", "latch", "coin"}
SPECIFICATION Spec
INVARIANTS
  ContextsAreRealizable
  FirstCycleIsComplete
