SPECIFICATION Program
CONSTANTS
  Sessions = {s1}
  NoSession = NoSession
  MaxStarts = 1
CHECK_DEADLOCK FALSE
INVARIANT EverythingToChat
