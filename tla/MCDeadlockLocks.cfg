SPECIFICATION Spec
CONSTANTS
  dim = dim
  x = x
  y = y
  reg = reg
  Fields = {dim}
  Values = {x, y}
  Spaces = {reg}
  Connections = {1, 2}
  Journals <- DeadlockJournals
INVARIANTS
  DeadlockLocksShown
