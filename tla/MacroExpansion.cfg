SPECIFICATION Spec
CONSTANTS
  Names <- MCNames
  Definitions <- MCDefinitions
  Programs <- MCPrograms
  TT_ENDOFCODE = TT_ENDOFCODE
  MaxFiles = 1
  MaxBuffers = 9
INVARIANTS
  TypeOK
  NoMacroTwice
  CallsFrozen
PROPERTIES
  ArgumentsIsolated
  NothingLost
  ReplacedAsWritten
  Terminates
