\* The breaker closes before its probe has an answer.
SPECIFICATION Spec
CONSTANTS
  t1 = t1
  t2 = t2
  Tasks = {t1, t2}
  MaxRetryAttempts = 0
  RetryDelay = 0
  FailureThreshold = 1
  WaitDuration = 1
  OpErrors = {"other_status"}
PROPERTIES
  ProbeDecides
