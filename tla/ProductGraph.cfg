SPECIFICATION AuditSpec
CONSTANTS
  libA = libA
  libB = libB
  libC = libC
  libD = libD
  libE = libE
  Names = {libA, libB, libC, libD, libE}
  None = None
  Default = Default
  AnySet = AnySet
  CcTypes <- MCCcTypes
  ActiveBranches <- MCBranches
  Condition <- MCCondition
  Matches <- MCMatches
  EndsWith <- MCEndsWith
  Inputs <- MCInputs
  InputOf <- MCInputOf
  ForbiddenTools <- MCForbiddenTools
  IsAssignment <- MCIsAssignment
  BelowRoots <- MCBelowRoots
  CompilerDso = libA
  RuntimeDso = libB
INVARIANTS CcWins  ExportsComplete DepsFirst  
CHECK_DEADLOCK FALSE
