CONSTANTS
  a = a
  b = b
  c = c
  d = d
  Names = {a, b, c}
  Modes <- OneMode
  Times = {0}
  Bytes = {1}
  MaxSize = 0
  MaxInodes = 4
  MaxRecords = 4
  MaxFds = 8
  LinkMod = 4
  DaemonIsRoot = TRUE
  Ops <- RenameUnlinkOps
SPECIFICATION Spec
PROPERTY UnlinkTakesItsName
