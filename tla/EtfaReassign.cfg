CONSTANTS
  CycleBound = 2
  MaxSteps = 60
  TimeOutConfigured = FALSE
  Programs = {"reassign"}
  Code <- MCCode
SPECIFICATION Spec
INVARIANTS
  PathConstraintIsEmbedded
