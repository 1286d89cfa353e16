CONSTANTS
  a = a
  b = b
  c = c
  d = d
  Names = {a, b, c}
  Modes <- TwoModes
  Times = {0}
  Bytes = {1}
  MaxSize = 2
  MaxInodes = 3
  MaxRecords = 4
  MaxFds = 7
  LinkMod = 4
  DaemonIsRoot = FALSE
  Ops <- CoreOps
SPECIFICATION Spec
SYMMETRY NameSymmetry
INVARIANT OwnStorage
INVARIANT SizeBacked
INVARIANT NoNameLost
INVARIANT UniqueNames
