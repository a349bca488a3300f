SPECIFICATION FairNetworkSpec
CONSTANTS
  me = me
  alice = alice
  Nodes = {me, alice}
  Self = me
  PortOf <- MCPortOf
  Timeout = 2
  MaxStarts = 2
INVARIANTS
  StoppedIsQuiet
  AnnouncedOnce
PROPERTIES
  ExpiryIsDue
  SilentIsForgotten
  StopReturns
CHECK_DEADLOCK FALSE
