CONSTANTS
  b1 = b1
  b2 = b2
  d1 = d1
  d2 = d2
  Brick = {b1, b2}
  Dir = {d1, d2}
  Home <- Apart
  Stored = {b1}
  None = None
  MaxEdits = 1
  MaxWork = 4
  MaxFaults = 1
SPECIFICATION Spec
CHECK_DEADLOCK FALSE
INVARIANT EditKept
INVARIANT OwnContent
INVARIANT QuitSeals
PROPERTY OpensWhatIsTrusted
INVARIANT Coherent
