SPECIFICATION Spec
CONSTANTS
  Runs = {r1, r2, r3}
  AppUrl = APP_URL
  OtherKeys = {MAIL_FROM}
  Keys <- MCKeys
  UserUrls <- MCUserUrls
  Urls <- MCUrls
  TunnelURL <- MCTunnelURL
  InitialFiles <- MCInitialFiles
  MaxEdits = 2
  Overlap = FALSE
  EditWindow = {}
  Faults = TRUE
  Absent = Absent
  NoFile = NoFile
  Truncated = Truncated
  NoState = NoState
  local = local
  mail = mail
  APP_URL = APP_URL
  MAIL_FROM = MAIL_FROM
  Remark = Remark
SYMMETRY RunSymmetry
INVARIANTS
  TypeOK
  IInv
  Repairable
  UpstreamNeverTunnel
  NoLitter
  ServesItsURL
  NoOrphan
PROPERTIES
  CleanExit
  ImplementsLoan
CHECK_DEADLOCK FALSE
