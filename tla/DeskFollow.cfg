SPECIFICATION Spec
CONSTANTS
  Null = Null
  Inputs = {"edit", "undo"}
  MaxInputs = 2
INVARIANTS ScreenFollows
CHECK_DEADLOCK FALSE
