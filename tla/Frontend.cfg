CONSTANTS
  Projects <- Kept
  Bases = {0, 7}
  Commands = {"sa", "engine"}
SPECIFICATION Spec
INVARIANTS
  CompiledAsWritten
  TransformedAsWritten
  SsaAsWritten
  SsaIsMinimal
  FirstCopyIsConnected
PROPERTIES
  Completes
