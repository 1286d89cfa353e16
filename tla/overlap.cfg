CONSTANTS
  a = a
  b = b
  t1 = t1
  t2 = t2
  Names = {a, b}
  Modes <- OneMode
  Times = {0}
  Bytes = {1}
  MaxSize = 1
  MaxInodes = 2
  MaxRecords = 3
  MaxFds = 11
  LinkMod = 2
  DaemonIsRoot = TRUE
  Ops <- OverlapOps
  Threads = {t1, t2}
  MaxCrashes = 1
SPECIFICATION StepsSafety
SYMMETRY OverlapSymmetry
INVARIANT StepsTypeOK
INVARIANT RecordsBacked
INVARIANT CounterCovers
INVARIANT HandledNumberIsOwn
PROPERTY DiskKeepsNames
CHECK_DEADLOCK FALSE
