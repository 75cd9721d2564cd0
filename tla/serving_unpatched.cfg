SPECIFICATION Spec
CONSTANTS
  Slots = {q1}
  Requests <- MCRequests
  HotOrigins <- MCHotOrigins
  Reverb = TRUE
  Installed = TRUE
  AppEnv = "development"
  Remote = "127.0.0.1"
  Lock <- MCLock
  NoPatch = FALSE
  ForcePatch = FALSE
  Empty = Empty
  NaN = NaN
  Unusable = Unusable
INVARIANTS
  PatchUnnecessary
