SPECIFICATION Spec
CONSTANTS
  Lines = {"exit"}
  MaxLines = 1
  MaxMessages = 0
INVARIANT StopWaits
CHECK_DEADLOCK FALSE
