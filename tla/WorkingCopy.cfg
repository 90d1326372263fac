CONSTANTS
  Session = {s1, s2}
  Fuse = {s1}
  Content = {c1, c2, c3}
  Inode = {i1, i2}
  Torn = Torn
  Missing = Missing
  None = None
  MaxFaults = 2
SPECIFICATION Spec
SYMMETRY Symmetry
CHECK_DEADLOCK FALSE
INVARIANT TypeOK
INVARIANT NoEditLost
INVARIANT SourceWhole
INVARIANT LeftoverTreeListed
PROPERTY ReplacesOnlyFingerprinted
PROPERTY DeliversAllEdits
