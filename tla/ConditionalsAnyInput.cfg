SPECIFICATION Spec
CONSTANTS
  A = A
  B = B
  Names <- MCNames
  MaxFiles = 1
  MaxNesting = 3
  Malformed <- AnyMalformed
INVARIANTS
  EnclosingLive
  IncludeDepth
PROPERTIES
  SkippedInert
