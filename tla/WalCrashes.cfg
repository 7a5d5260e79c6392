SPECIFICATION FairSpec
CONSTANTS
  j1 = j1
  j2 = j2
  Jobs <- MCJobs
  Environments <- Crashes
CHECK_DEADLOCK FALSE
INVARIANT TypeOK
INVARIANT AcceptedSurvives
INVARIANT SkippedChildrenAreReplayed
INVARIANT MemoryOnDisk
INVARIANT CompletionsBoundedByCrashes
INVARIANT ReplaysOnlyInterrupted
PROPERTY AcceptedSettles
