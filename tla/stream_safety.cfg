\* Two stopping tasks, callbacks that may swallow a cancellation.
SPECIFICATION Spec
CONSTANTS
  u1 = u1
  u2 = u2
  Users = {u1, u2}
  MaxRetryAttempts = 2
  MaxFrames = 3
  CallbackSwallows = TRUE
SYMMETRY Symmetry
INVARIANTS
  TypeOK
  ReconnectsBounded
  EndExplained
  StopWaits
PROPERTIES
  KeepsSubscription
