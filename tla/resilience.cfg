\* Three callers that overlap, a breaker that opens at the second failure. The
\* kinds of error left out are handled as one of these is.
SPECIFICATION FairSpec
CONSTANTS
  t1 = t1
  t2 = t2
  t3 = t3
  Tasks = {t1, t2, t3}
  MaxRetryAttempts = 2
  RetryDelay = 1
  FailureThreshold = 2
  WaitDuration = 2
  OpErrors = {"retryable_status", "other_status", "cancelled", "breaker_open"}
INVARIANTS
  TypeOK
  BreakerAgrees
  LateFailuresBounded
  OutcomeExplained
PROPERTIES
  OpenWindowFixed
  OpenAdmitsNobody
  EveryCallReturns
  BreakerRecovers
  KeepsContract
