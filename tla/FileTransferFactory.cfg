SPECIFICATION FairSpec
CONSTANTS
  p1 = p1
  p2 = p2
  NoPeer = NoPeer
  Lost = Lost
  Peers = {p1}
  Names = {"a", "b"}
  NameOf <- OneName
  FileSize <- OneSize
  ChunkSize = 2
  BareNames = {p1}
  SharedIds = FALSE
  DecodedTypes <- FactoryTypes
  MaxRequests = 1
PROPERTY CompletionIsSignalled
CHECK_DEADLOCK FALSE
