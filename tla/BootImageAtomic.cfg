SPECIFICATION GateSpec
CONSTANTS
  ElfAlignment = 64
  MaxJar = 1
  MaxFaults = 1
  MaxCase = 23
  Absent = Absent
  Schemes <- MCSchemes
  OatOf <- MCOatOf
INVARIANT AtomicReplacement
