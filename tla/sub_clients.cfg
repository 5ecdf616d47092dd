\* Two callers of two methods, either kind of sub-client. The bound on the
\* calls stops the model: no deadlock check.
SPECIFICATION SubSpec
CONSTANTS
  t1 = t1
  t2 = t2
  m1 = m1
  m2 = m2
  Tasks = {t1, t2}
  Methods = {m1, m2}
  MaxCalls = 2
  MaxRetryAttempts = 1
  RetryDelay = 1
  FailureThreshold = 1
  WaitDuration = 1
  OpErrors = {"retryable_status", "unknown", "value_error", "cancelled"}
SYMMETRY Symmetry
INVARIANTS
  SubTypeOK
  OncePerCall
  AnswerIsOwn
  RefusedNotSent
CHECK_DEADLOCK FALSE
