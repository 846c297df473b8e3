SPECIFICATION Spec
CONSTANTS
  Inputs <- MCInputs
INVARIANTS
  TypeOK
  GreaterIsOperator
  GroupsAsCpp
  EarlyValueStands
  InstantiatedValue
PROPERTIES
  Ends
