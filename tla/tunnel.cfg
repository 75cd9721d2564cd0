SPECIFICATION TunnelSpec
CONSTANTS
  u1 = u1
  u2 = u2
  TunnelUrls <- MCTunnelUrls
  NoUrl = NoUrl
  Transport = "ngrok"
  MaxLines = 3
  PipeCap = 2
INVARIANTS
  TunnelTypeOK
  FirstURL
PROPERTIES
  ImplementsContract
  Drains
  ReaderEnds
  StopEnds
CHECK_DEADLOCK FALSE
