CONSTANTS
  Name = {a, b}
  Depth = 2
  Data = {f, g}
  Dir = Dir
  None = None
  MaxIno = 4
SPECIFICATION Spec
CHECK_DEADLOCK FALSE
SYMMETRY Symmetry
PROPERTY ImplementsPosix
INVARIANT Consistent
