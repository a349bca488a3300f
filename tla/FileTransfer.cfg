SPECIFICATION Spec
CONSTANTS
  p1 = p1
  p2 = p2
  NoPeer = NoPeer
  Lost = Lost
  Peers = {p1, p2}
  Names = {"a", "b"}
  NameOf <- OwnNames
  FileSize <- MCFileSize
  ChunkSize = 2
  BareNames = {p1, p2}
  SharedIds = TRUE
  DecodedTypes = {"FILE_TRANSFER_REQUEST", "FILE_CHUNK", "FILE_TRANSFER_COMPLETE"}
  MaxRequests = 2
INVARIANTS
  TypeOK
  CompletedFileIsWhole
  BytesAreReceived
PROPERTY
  ReportedOnce
CHECK_DEADLOCK FALSE
