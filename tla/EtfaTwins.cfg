CONSTANTS
  CycleBound = 2
  MaxSteps = 60
  TimeOutConfigured = FALSE
  Programs = {"twinsSummarized"}
  Code <- MCCode
SPECIFICATION Spec
PROPERTIES
  OneSummaryServesAllCalls
