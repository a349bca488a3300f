SPECIFICATION FairSpec
CONSTANTS
  Writers = {io}
  Messages <- AllMessages
  PieceSizes = {40, 100}
  MaxSent = 3
INVARIANTS
  TypeOK
  FramesAreIntact
  RoundTrip
  CutIsRejected
PROPERTIES
  ImplementsChannel
  WrittenIsRead
CHECK_DEADLOCK FALSE
