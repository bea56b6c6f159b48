\* A replayed row dies without another attempt.
SPECIFICATION Spec
CONSTANTS
  Rows = {1, 2}
  Workers = {w1}
  BatchSize = 1
  MaxAttempts = 2
  MaxReplays = 1
  MaxAborts = 0
INVARIANT ReplayRequeues
CHECK_DEADLOCK FALSE
