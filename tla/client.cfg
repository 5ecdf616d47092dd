\* The whole client: any environment of one service, any method, and the
\* typical use with calls and a stream under way when it is closed. The bound
\* on calls stops the model: no deadlock check.
SPECIFICATION FairClient
CONSTANTS
  Numbers = {1}
  MaxRetryAttempts = 1
  FailureThreshold = 1
  WaitDuration = 1
  MaxCalls = 2
  None = None
INVARIANTS
  ClientTypeOK
  Routed
PROPERTIES
  KeepsBreakers
  KeepsLifecycle
  CloseEndsAll
CHECK_DEADLOCK FALSE
