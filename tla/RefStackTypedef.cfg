SPECIFICATION Spec
CONSTANTS
  Null = Null
  Nodes = {n1, n2, n3}
  Locals = {"refs", "nested"}
  Typedefs = {"typedef"}
  Names = {"x"}
  MaxSize = 3
PROPERTIES
  TypedefsKept
