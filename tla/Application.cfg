SPECIFICATION FairProgram
CONSTANTS
  Sessions = {s1}
  NoSession = NoSession
  MaxStarts = 1
CHECK_DEADLOCK FALSE
INVARIANTS ExitIsQuiet StoppedAfterCallers OpenedIsAnnounced
PROPERTY ProgramEnds
