\* A second stop() while the first one waits.
SPECIFICATION Spec
CONSTANTS
  u1 = u1
  u2 = u2
  Users = {u1, u2}
  MaxRetryAttempts = 1
  MaxFrames = 1
  CallbackSwallows = FALSE
INVARIANTS
  StopWaitsForCleanup
