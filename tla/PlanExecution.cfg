SPECIFICATION FairPlanSpec
CONSTANTS
  Executors = {e1, e2}
  Tasks <- MCTasks
  Contents <- MCContents
  Descriptions <- MCDescriptions
  AskFirst = {"test"}
  Options <- MCOptions
  MaxCommands = 3
  MaxCrashes = 1
CHECK_DEADLOCK FALSE
INVARIANT PlanTypeOK
INVARIANT CompletedWasRun
INVARIANT RunningHasExecutor
INVARIANT NothingPendingWhenCompleted
PROPERTY ImplementsLedger
PROPERTY ExecutorsEnd
