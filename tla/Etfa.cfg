CONSTANTS
  CycleBound = 2
  MaxSteps = 48
  TimeOutConfigured = TRUE
  Programs <- MCEtfaPrograms
  Code <- MCCode
SPECIFICATION Spec
INVARIANTS
  TypeOK
  RefinementInv
  SoleContextAtProgramExit
  VersionsAreFresh
  NamesAgree
  ContextsSimulateRuns
  ContextsPartitionWorlds
  SuiteCoversBranches
  CoverageIsComplete
PROPERTIES
  Termination
  ImplementsScanCycle
