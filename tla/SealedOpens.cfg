CONSTANTS
  Job = {"gui", "cli"}
  Cancellable = {"gui"}
  Source = {"a", "b", "d", "e"}
  Args <- MCArgs
  Sealed <- MCSealed
  Order <- MCOrder
  Name <- MCName
  Draft <- MCDraft
  Below <- MCBelow
  Hidden <- MCHidden
  Content <- MCContent
  Older = {"zip"}
  MaxJobs = 2
  MaxEdits = 1
  MaxFaults = 1
SPECIFICATION Spec
CHECK_DEADLOCK FALSE
INVARIANT SealedOpens
