SPECIFICATION FairSpec
CONSTANTS
  Lines = {"chat", "command", "unknown", "help", "exit"}
  MaxLines = 2
  MaxMessages = 2
INVARIANTS
  WaitsOnlyWhenEmpty
  DestroyedIsJoined
PROPERTIES
  MessagesAreShown
  DisplayEnds
  StopReturns
CHECK_DEADLOCK FALSE
