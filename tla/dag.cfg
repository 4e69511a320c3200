SPECIFICATION ChecksSpec
CONSTANTS
  n1 = n1
  n2 = n2
  n3 = n3
  Existing = {n1, n2}
  NewId = n3
  Unknown = Unknown
  NoNode = NoNode
  MaxDeps = 2
INVARIANTS VerdictCorrect ReportedCycleIsReal DependenciesFirst ChecksAgree
CHECK_DEADLOCK FALSE
