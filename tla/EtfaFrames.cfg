CONSTANTS
  CycleBound = 2
  MaxSteps = 60
  TimeOutConfigured = FALSE
  Programs = {"nestedCalls"}
  Code <- MCCode
SPECIFICATION Spec
INVARIANTS
  MergedStacksAgree
