SPECIFICATION Spec
CONSTANTS
  none = none
  byUser = byUser
  keyless = keyless
  broken = broken
  Lines <- MCLines
  Queries = {none, byUser, keyless, broken}
  NoQuery = none
  Matches <- MCMatches
  Failing = {broken}
  MaxRows = 2
  ScrollPage = 3
  WheelSteps <- MCWheelSteps
INVARIANTS
  TypeOK
  PageIsSlice
  GreyIsCurrent
  CurrentHasCaret
  SearchIsExact
PROPERTIES
  CopyIsClicked
