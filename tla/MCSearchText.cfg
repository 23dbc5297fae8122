SPECIFICATION Spec
CONSTANTS
  Units <- MCUnits
  Stamps <- MCStamps
  LowerCase <- MCLowerCase
  Journal <- MCJournal
  MaxCompared = 2
INVARIANTS
  TypeOK
  FilterIsExact
