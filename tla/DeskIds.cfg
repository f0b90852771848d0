SPECIFICATION Spec
CONSTANTS
  Null = Null
  Inputs = {"bend", "record"}
  MaxInputs = 3
INVARIANTS StepIdsUnique
CHECK_DEADLOCK FALSE
