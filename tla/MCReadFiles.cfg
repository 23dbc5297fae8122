SPECIFICATION Spec
CONSTANTS
  a1 = a1
  a2 = a2
  b = b
  c1 = c1
  c2 = c2
  rphost = rphost
  ragent = ragent
  call = call
  lock = lock
  excp = excp
  LogFiles = {a1, a2, b, c1, c2}
  Hour <- MCHour
  HourSpan = 4
  Indexable = {a1, a2, b, c2}
  Events <- MCEvents
  Process <- MCProcess
  Names = {rphost, ragent, call, lock, excp}
  MaxKills = 2
INVARIANTS
  TypeOK
  OneWriter
  SortedByTime
  LineChain
  RowsResolve
  CompleteWhenDone
PROPERTIES
  ImplementsJournalIndex
  LoadEnds
