CONSTANTS
  CycleBound = 0
  MaxSteps = 20
  Programs <- MCBlockPrograms
  Code <- MCBlockCode
SPECIFICATION Spec
INVARIANTS
  PathsPartitionEnvironments
  SummariesAreExact
  SummariesAreSelfContained
  CatalogueIsGenerated
PROPERTIES
  Termination
