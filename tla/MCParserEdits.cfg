CONSTANTS
  Texts <- EditTexts
  BodyLength = 0
  BufferSizes = {1, 5, 100}
  KeyName <- MCKeyName
SPECIFICATION Spec
INVARIANTS
  RowsAreTheEvents
  RefusesOnlyMalformed
  OverrunOnlyAtEmptyLine
  CutTextIsRead
PROPERTIES
  ParseEnds
