CONSTANTS
  Title = {"a", "b"}
  Query = {"", "b"}
  Hits <- MCHits
  Imports <- MCImports
  Stored <- MCStored
  Settings <- MCSettings
  MaxEntries = 3
  MaxChanges = 2
  MaxCopies = 2
  MaxFaults = 1
SPECIFICATION Spec
CHECK_DEADLOCK FALSE
INVARIANT SavedWhenSaidSo
PROPERTY LocksWhenLeft
PROPERTY ClipboardCleared
INVARIANT ShowsWhatIs
