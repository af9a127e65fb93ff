CONSTANTS
  Components = {"client", "read", "chunks", "connection", "scan"}
  Main = main
  Clients = {main, other}
  MaxRequests = 3
  MaxInits = 2
  HeaderUnits = 2
  BodyUnits = 5
  BufferSize = 3
  RequestSize = 4
  HandshakeSteps = 2
  MaxAddresses = 2
  Buffers <- ScanTexts
  Tokens = {":"}
  Counts = {1, 2}
SPECIFICATION AllFairSpec
INVARIANTS RequestsInOrder RequestWakesThread ReadParsesOnlyWhole ChunkedBodyIsWhole
  ConnectionLeftClosed
PROPERTIES RequestsAllAnswered ShutdownReturns ReadWholeIsRecognized ScanLinesAreLines
CHECK_DEADLOCK FALSE
