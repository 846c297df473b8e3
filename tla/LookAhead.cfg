SPECIFICATION Spec
CONSTANTS
  MaxReads = 4
  MaxMarks = 3
  MaxBuffers = 4
  MaxRecord = 5
  CastsParsed = FALSE
INVARIANTS
  TypeOK
  BuffersAbut
  RecordsAbut
PROPERTIES
  ImplementsCursor
