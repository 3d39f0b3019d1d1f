SPECIFICATION Spec
CONSTANTS
  MaxOpens = 3
  MaxCalls = 3
  Recent = TRUE
INVARIANTS TypeOK CanGoOn SafeAlone OneRecording
CHECK_DEADLOCK FALSE
