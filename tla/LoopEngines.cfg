CONSTANTS
  CycleBound = 2
  MaxSteps = 60
  TimeOutConfigured = TRUE
  Programs <- MCEnginePrograms
  Code <- MCCode
  EngineOf <- MCEngineOf
  UnreachableLabels <- MCUnreachableLabels
  UnreachableBranches <- MCUnreachableBranches
  Alphabet <- MCAlphabet
SPECIFICATION Spec
INVARIANTS
  ContextsSimulateRuns
  ContextsPartitionWorlds
  ConcreteStoreIsARun
  VersionsAreFresh
  SuiteCoversBranches
  CoverageIsComplete
  OneCycleIsEnough
PROPERTIES
  Termination
