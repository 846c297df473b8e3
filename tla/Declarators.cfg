SPECIFICATION Spec
CONSTANTS
  Declarations <- MCDeclarations
PROPERTIES
  DeclaredAsWritten
CHECK_DEADLOCK FALSE
