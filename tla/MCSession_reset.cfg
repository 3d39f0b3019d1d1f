SPECIFICATION Spec
CONSTANTS
  MaxOpens = 3
  MaxCalls = 3
  Recent = FALSE
INVARIANTS UiReset
CHECK_DEADLOCK FALSE
