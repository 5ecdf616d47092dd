\* Every kind of message, one attribute (and some with a status) at a time: two
\* tries, of one call or of two, or a try and a change by others, while the
\* caller edits its object. The bounds stop the model: no deadlock check.
SPECIFICATION DocSpec
CONSTANTS
  MaxWrites = 2
  MaxEdits = 1
INVARIANTS
  DocTypeOK
  WriteKeepsUnedited
PROPERTIES
  KeepsRegister
CHECK_DEADLOCK FALSE
