SPECIFICATION SearchSpec
CONSTANTS
  a1 = a1
  a2 = a2
  b = b
  c = c
  srv = srv
  call = call
  lock = lock
  none = none
  byCall = byCall
  broken = broken
  LogFiles = {a1, a2, b, c}
  Hour <- MCHour
  HourSpan = 4
  Indexable = {a1, a2, b, c}
  Events <- MCEvents
  Process <- MCProcess
  Names = {srv, call, lock}
  MaxKills = 0
  Texts = {none, byCall, broken}
  NoText = none
  Found <- MCFound
  Failing = {broken}
INVARIANTS
  SearchTypeOK
  OneOwner
  SearchOfWholeHours
  TotalsWithinHour
PROPERTIES
  IndexByHours
  LoadEndsOrTells
