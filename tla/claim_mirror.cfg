\* A caller composes one object and sends it (no edits, retries or other
\* clients; these bounds stop the model).
SPECIFICATION DocSpec
CONSTANTS
  MaxWrites = 1
  MaxEdits = 0
PROPERTIES
  ConfigMirrored
CHECK_DEADLOCK FALSE
