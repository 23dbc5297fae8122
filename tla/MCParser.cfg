CONSTANTS
  Texts <- BodyTexts
  BodyLength = 4
  BufferSizes = {1, 100}
  KeyName <- MCKeyName
SPECIFICATION Spec
INVARIANTS
  TypeOK
  EventsBetweenBreaks
  LinesCounted
  RowsAreTheEvents
