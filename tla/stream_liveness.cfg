\* Silent servers, and servers that break every connection.
SPECIFICATION FairSpec
CONSTANTS
  u1 = u1
  u2 = u2
  Users = {u1, u2}
  MaxRetryAttempts = 2
  MaxFrames = 2
  CallbackSwallows = FALSE
PROPERTIES
  StopEnds
  BrokenServerGivenUp
