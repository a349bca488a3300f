SPECIFICATION FairSpec
CONSTANTS
  me = me
  alice = alice
  Nodes = {me, alice}
  Self = me
  PortOf <- MCPortOf
  Timeout = 2
  MaxStarts = 1
PROPERTY StopInterrupts
CHECK_DEADLOCK FALSE
