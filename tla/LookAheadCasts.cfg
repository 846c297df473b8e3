SPECIFICATION Spec
CONSTANTS
  MaxReads = 3
  MaxMarks = 2
  MaxBuffers = 2
  MaxRecord = 3
  CastsParsed = TRUE
PROPERTIES
  NothingSkipped
