SPECIFICATION Spec
CONSTANTS
  Writers = {io, console}
  Messages <- ChatAndNotice
  PieceSizes = {100}
  MaxSent = 2
INVARIANT ConcurrentSendsAreSafe
CHECK_DEADLOCK FALSE
