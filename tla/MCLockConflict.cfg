SPECIFICATION Spec
CONSTANTS
  dim1 = dim1
  dim2 = dim2
  x = x
  y = y
  reg1 = reg1
  reg2 = reg2
  Fields = {dim1, dim2}
  Values = {x, y}
  Spaces = {reg1}
  MaxLocks = 1
  MaxElements = 2
SYMMETRY AlikeFields
CHECK_DEADLOCK FALSE
INVARIANTS
  NoKeptConflictMissed
  NoFalseConflict
