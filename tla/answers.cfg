CONSTANTS
  a = a
  b = b
  t1 = t1
  t2 = t2
  Names = {a, b}
  Modes <- OneMode
  Times = {0}
  Bytes = {1}
  MaxSize = 0
  MaxInodes = 2
  MaxRecords = 3
  MaxFds = 14
  LinkMod = 2
  DaemonIsRoot = TRUE
  Ops <- AnswersOps
  Threads = {t1, t2}
  MaxCrashes = 0
SPECIFICATION StepsSpec
PROPERTY RequestsEnd
 
