SPECIFICATION Spec
CONSTANTS
  A = A
  B = B
  Names <- MCNames
  MaxFiles = 1
  MaxNesting = 3
  Malformed <- NoMalformed
INVARIANTS
  TypeOK
  MainLoopLive
PROPERTIES
  ImplementsSections
