SPECIFICATION FairSpec
CONSTANTS
  Sessions = {s1, s2}
  Users = {u1}
  LocalId = me
  Times = {1, 2}
  MaxMessages = 3
CHECK_DEADLOCK FALSE
INVARIANTS RecordedAsSent DirectIsKept BroadcastIsKept ReceivedIsKept HandledOnce QueryReturnsNewest
PROPERTIES CallsReturn
