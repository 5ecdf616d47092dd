\* Three tasks share a session, one of the inputs cannot be converted.
SPECIFICATION FairSpec
CONSTANTS
  u1 = u1
  u2 = u2
  u3 = u3
  CLOSE = CLOSE
  Users = {u1, u2, u3}
  MaxInputs = 3
  BadInputs = {3}
INVARIANTS
  TypeOK
  OneSentinel
  EndOfStreamComing
  SoleAwaiter
  SentInOrder
PROPERTIES
  PendingCompleteKept
  CompleteEnds
