SPECIFICATION Spec
CONSTANTS
  Engines = {"ahorn", "concolic", "etfa", "summarization", "reuse", "baseline", "cbmc", "oa", "shadow", "divergence", "simulator", "experimental", "smart"}
  Trees <- MCTrees
  Stores <- MCStores
INVARIANTS
  AnswersAreMeant
CHECK_DEADLOCK FALSE
