CONSTANTS
  CycleBound = 0
  MaxSteps = 20
  Code <- MCChanges
  Programs = {"same", "sameTwins", "branch", "both", "condition", "early", "inner", "outer",
              "widened", "copied", "twins"}
SPECIFICATION Spec
INVARIANTS
  KeptWhenSomeRunAgrees
  RegeneratedSummariesAreExact
  SummariesCoverNewVersion
  UnchangedPathsAreKept
