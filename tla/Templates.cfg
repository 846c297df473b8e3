SPECIFICATION Spec
CONSTANTS
  Programs <- MCPrograms
INVARIANTS
  TypeOK
  MembersAsWritten
  ValuesAsWritten
  InstanceDesignated
PROPERTIES
  InstantiationReturns
