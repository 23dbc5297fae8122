SPECIFICATION Spec
CONSTANTS
  Units <- MCUnits
  Stamps <- MCStamps
  LowerCase <- MCLowerCase
  Journal <- MCMenuJournal
  MaxCompared = 1
INVARIANTS
  MenuShowsItsEvent
