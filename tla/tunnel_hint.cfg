SPECIFICATION TunnelSpec
CONSTANTS
  u1 = u1
  u2 = u2
  TunnelUrls <- MCTunnelUrls
  NoUrl = NoUrl
  Transport = "cloudflare"
  MaxLines = 2
  PipeCap = 2
INVARIANTS
  HintOnlyWithoutErrorLine
CHECK_DEADLOCK FALSE
