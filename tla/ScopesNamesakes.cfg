SPECIFICATION Spec
CONSTANTS
  Names = {a, b}
  MaxDefs = 5
  MaxOpen = 3
  MaxUses = 1
  Namesakes = TRUE
SYMMETRY Identifiers
INVARIANT
  NamespacesDefinedHere
