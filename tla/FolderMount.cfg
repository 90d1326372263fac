CONSTANTS
  Name = {a, b}
  Depth = 3
  Data = {f, g, Cut}
  Cut = Cut
  Dir = Dir
  None = None
  MaxNodes = 2
  MaxEdits = 3
  MaxFaults = 2
SPECIFICATION FolderSpec
CHECK_DEADLOCK FALSE
SYMMETRY Symmetry
INVARIANT ClosesFaithfully
