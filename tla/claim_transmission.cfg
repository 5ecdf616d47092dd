\* An input accepted while complete() waits.
SPECIFICATION Spec
CONSTANTS
  u1 = u1
  u2 = u2
  CLOSE = CLOSE
  Users = {u1, u2}
  MaxInputs = 1
  BadInputs = {}
INVARIANTS
  AcceptedAreSent
