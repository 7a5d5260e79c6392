CONSTANTS
  Skills <- LoopSkills
  Deps <- LoopDeps
  Autonomy <- LoopAutonomy
  Compensable = {"Pong", "Echo"}
  PreBlocks = {"Echo"}
  PostAffects = {"Ping"}
  MaxRetries <- LoopRetries
  RetryOn <- LoopRetryOn
  Timed = {"Ping", "Pong", "Echo"}
  Refusable = {}
  Removable = {}
  Execs <- OneExec
  Root <- LoopRoot
  MaxDepth = 4
  CallBudget = 5
SPECIFICATION FairSpec
CHECK_DEADLOCK FALSE
INVARIANT TypeOK
INVARIANT CallsWithinLimits
PROPERTY CallsEnd
