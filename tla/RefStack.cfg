SPECIFICATION Spec
CONSTANTS
  Null = Null
  Nodes = {n1, n2, n3}
  Locals = {"refs", "nested"}
  Typedefs = {"typedef"}
  Names = {"x"}
  MaxSize = 3
SYMMETRY Addresses
INVARIANTS
  TypeOK
  ListsLinked
  NodesOwned
PROPERTIES
  ImplementsStacks
