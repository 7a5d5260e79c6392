SPECIFICATION Spec
CONSTANTS
  j1 = j1
  j2 = j2
  Jobs <- MCJobs
  Environments <- Compacted
CHECK_DEADLOCK FALSE
INVARIANT PendingKept
