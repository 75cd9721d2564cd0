SPECIFICATION Spec
CONSTANTS
  Procs = {p1, p2}
  Initial <- MCInitial
  Edits <- MCEdits
  MaxEdits = 1
  Faults = TRUE
  Chunks = 2
  NoFile = NoFile
  Project <- MCProject
  Flags = {"", "cloudflare", "ngrok"}
  Empty = Empty
  NaN = NaN
  Unusable = Unusable
SYMMETRY ProcSymmetry
INVARIANTS
  ConfigTypeOK
  CacheTypeOK
  KeysKept
  ReadableUnlessDamaged
  AskedOnce
  HonoursChoices
  CachedWhole
PROPERTIES
  ResolvesAtOnce
  ImplementsSettings
CHECK_DEADLOCK FALSE
