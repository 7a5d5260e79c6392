CONSTANTS
  Skills <- TreeSkills
  Deps <- TreeDeps
  Autonomy <- TreeAutonomy
  Compensable <- TreeCompensable
  PreBlocks = {"Book"}
  PostAffects = {"Book"}
  MaxRetries <- TreeRetries
  RetryOn <- TreeRetryOn
  Timed = {"Book", "Charge"}
  Refusable = {"Notify"}
  Removable = {"Book", "Notify"}
  Execs <- OneExec
  Root <- OneRoot
  MaxDepth = 3
  CallBudget = 5
SPECIFICATION Spec
CHECK_DEADLOCK FALSE
INVARIANT FailedResultRolledBack
