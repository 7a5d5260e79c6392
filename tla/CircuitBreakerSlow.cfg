CONSTANTS
  c1 = c1
  c2 = c2
  c3 = c3
  Callers <- MCCallers
  FailureThreshold = 2
  RecoveryTime = 1
  HalfOpenRequests = 2
  RateMinRequests = 20
  RatePercent = 95
  MaxRequests = 42
  MaxSlow = 1
SYMMETRY MCSymmetry
SPECIFICATION Spec
CHECK_DEADLOCK FALSE
PROPERTY SlowCallIsFailure
