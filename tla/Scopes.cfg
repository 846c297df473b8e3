SPECIFICATION Spec
CONSTANTS
  Names = {a, b}
  MaxDefs = 5
  MaxOpen = 4
  MaxUses = 1
  Namesakes = FALSE
SYMMETRY Identifiers
INVARIANTS
  TypeOK
  Owned
  ReopenedPastTag
  StructsNameable
  LooksUpNearest
PROPERTIES
  DeclarationsLocal
