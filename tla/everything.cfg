CONSTANTS
  a = a
  b = b
  c = c
  d = d
  Names = {a, b}
  Modes <- OneMode
  Times = {0}
  Bytes = {1}
  MaxSize = 0
  MaxInodes = 2
  MaxRecords = 3
  MaxFds = 5
  LinkMod = 2
  DaemonIsRoot = TRUE
  Ops <- AllOps
SPECIFICATION Spec
SYMMETRY NameSymmetry
INVARIANT TypeOK
INVARIANT InodesBacked
INVARIANT CounterCovers
PROPERTY SuccessCostsOneName
