SPECIFICATION Spec
CONSTANTS
  j1 = j1
  j2 = j2
  Jobs <- MCJobs
  Environments <- Damage
SYMMETRY Symmetry
CHECK_DEADLOCK FALSE
INVARIANT MemoryOnDisk
INVARIANT SettledStaysSettled
INVARIANT ExecutionsBoundedByReplays
