\* One method fails, another is rejected (the bound on the calls stops the model).
SPECIFICATION SubSpec
CONSTANTS
  t1 = t1
  t2 = t2
  m1 = m1
  m2 = m2
  Tasks = {t1, t2}
  Methods = {m1, m2}
  MaxCalls = 2
  MaxRetryAttempts = 1
  RetryDelay = 1
  FailureThreshold = 1
  WaitDuration = 1
  OpErrors = {"other_status"}
PROPERTIES
  PerMethodBreaker
CHECK_DEADLOCK FALSE
