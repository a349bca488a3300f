SPECIFICATION FairSpec
CONSTANTS
  Sessions = {s1}
  NoSession = NoSession
  MaxStarts = 2
CHECK_DEADLOCK FALSE
INVARIANTS StoppedIsQuiet ConnectedIsRegistered ConnectedIsRead NotifiedBeforeDelivery
PROPERTIES StopClosesSessions StopReturns DeadPeerNoticed AcceptLoopContinues
