CONSTANTS
  Components = {"client"}
  Main = main
  Clients = {main}
  MaxRequests = 2
  MaxInits = 2
  HeaderUnits = 2
  BodyUnits = 5
  BufferSize = 3
  RequestSize = 4
  HandshakeSteps = 2
  MaxAddresses = 2
  Buffers <- ScanTexts
  Tokens = {":"}
  Counts = {1, 2}
SPECIFICATION AllFairSpec
PROPERTY ShutdownAlwaysReturns
CHECK_DEADLOCK FALSE
