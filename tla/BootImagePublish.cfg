SPECIFICATION GateSpec
CONSTANTS
  ElfAlignment = 64
  MaxJar = 2
  MaxFaults = 3
  MaxCase = 23
  Absent = Absent
  Schemes <- MCSchemes
  OatOf <- MCOatOf
INVARIANTS
  DestinationWhole
  FailureRestores
  OneFaultKeepsImage
  
  CorruptionsRefused
PROPERTIES
  Recovers
