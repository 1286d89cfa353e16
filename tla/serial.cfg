CONSTANTS
  a = a
  b = b
  t1 = t1
  Names = {a, b}
  Modes <- OneMode
  Times = {0}
  Bytes = {1}
  MaxSize = 1
  MaxInodes = 2
  MaxRecords = 3
  MaxFds = 8
  LinkMod = 4
  DaemonIsRoot = FALSE
  Ops <- AllOps
  Threads = {t1}
  MaxCrashes = 0
SPECIFICATION SerialSpec
PROPERTY StepsMakeWhole
