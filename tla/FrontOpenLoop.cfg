CONSTANTS
  Projects <- OpenLoops
  Bases = {0}
  Commands = {"engine"}
SPECIFICATION Spec
INVARIANTS
  CompiledAsWritten
