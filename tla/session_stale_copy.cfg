SPECIFICATION Spec
CONSTANTS
  Runs = {r1}
  AppUrl = APP_URL
  OtherKeys = {MAIL_FROM}
  Keys <- MCKeys
  UserUrls <- MCUserUrls
  Urls <- MCUrls
  TunnelURL <- MCTunnelURL
  InitialFiles <- MCInitialFiles
  MaxEdits = 1
  Overlap = FALSE
  EditWindow = {"await"}
  Faults = FALSE
  Absent = Absent
  NoFile = NoFile
  Truncated = Truncated
  NoState = NoState
  local = local
  mail = mail
  APP_URL = APP_URL
  MAIL_FROM = MAIL_FROM
  Remark = Remark
INVARIANTS
  UntouchedKeys
CHECK_DEADLOCK FALSE
