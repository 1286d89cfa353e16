CONSTANTS
  a = a
  b = b
  t1 = t1
  t2 = t2
  Names = {a, b}
  Modes <- OneMode
  Times = {0}
  Bytes = {1}
  MaxSize = 1
  MaxInodes = 2
  MaxRecords = 3
  MaxFds = 10
  LinkMod = 2
  DaemonIsRoot = TRUE
  Ops <- WriteOps
  Threads = {t1, t2}
  MaxCrashes = 0
SPECIFICATION StepsSpec
PROPERTY WriteLands
