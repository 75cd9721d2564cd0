SPECIFICATION Spec
CONSTANTS
  Runs = {r1, r2}
  AppUrl = APP_URL
  OtherKeys = {MAIL_FROM}
  Keys <- MCKeys
  UserUrls <- MCUserUrls
  Urls <- MCUrls
  TunnelURL <- MCTunnelURL
  InitialFiles <- MCInitialFiles
  MaxEdits = 0
  Overlap = FALSE
  EditWindow = {}
  Faults = FALSE
  Absent = Absent
  NoFile = NoFile
  Truncated = Truncated
  NoState = NoState
  local = local
  mail = mail
  APP_URL = APP_URL
  MAIL_FROM = MAIL_FROM
  Remark = Remark
INVARIANTS
  NextRunStarts
CHECK_DEADLOCK FALSE
