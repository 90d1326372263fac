CONSTANTS
  Proc = {gui, cli}
  Gui = {gui}
  Update = {u1, u2, u3}
  Torn = Torn
  Absent = Absent
  MaxFaults = 2
SPECIFICATION Spec
SYMMETRY Symmetry
CHECK_DEADLOCK FALSE
INVARIANT TypeOK
INVARIANT AckedUnlessOverlapped
INVARIANT AnchorNotAhead
INVARIANT NoSilentRegression
INVARIANT NoFalseAlarm
PROPERTY ImplementsStore
